---- MODULE Spec2Model ----
(***************************************************************************)
(* External calendar synchronisation engine of the schedule backend.       *)
(*                                                                         *)
(*   backend/services/calendar_sync_service.py   CalendarSyncService       *)
(*   backend/api/external_calendar_sync.py       auto-sync task handling   *)
(*                                                                         *)
(* Spec      - the mapping engine working on the schedule store: connect   *)
(*             (track_pre_existing_events), sync passes                    *)
(*             (process_external_events) and disconnect                    *)
(*             (cleanup_synced_events) over a fixed provider feed.         *)
(* AsyncSpec - the asyncio event loop running setup_auto_sync,             *)
(*             stop_auto_sync, auto_sync_task and the /sync handler.       *)
(*                                                                         *)
(* Times of day are slots (see Slots).  A time STRING is the number         *)
(* 2*slot + f with f = 0 for "HH:MM" (strftime("%H:%M"), user blocks) and  *)
(* f = 1 for "HH:MM:SS" (time.isoformat(), provider events): comparing     *)
(* these numbers is comparing the strings lexicographically, the way       *)
(* _insert_break_into_blocks does.  Dates are day numbers, day 0 is a      *)
(* Monday and is date.today().                                             *)
(***************************************************************************)
EXTENDS Integers, Sequences, FiniteSets, TLC

\* ---------------------------------------------------------------- bounds
\* sync passes in one behaviour
MaxPasses == 2
\* events in the provider feed (instances of the series, one-off and all-day)
MaxFeedEvents == 2
\* requests handled in one behaviour of the event loop
MaxCalls == 3
\* auto_sync_task tasks created in one behaviour of the event loop
MaxTasks == 3

\* ------------------------------------------------------ program constants
\* opens_at / closes_at of a template the engine creates (time(9,0), time(19,0)),
\* scaled to slots
DefaultOpensAt == 1
DefaultClosesAt == 3
\* limit_date = date.today() + timedelta(days=730)
HorizonDays == 730
Today == 0

NoTime == -1
NoId == <<"none", 0>>
NoDow == -1
NoTpl == [exists |-> FALSE]

\* times of day: from one slot before the default opening to the default closing
Slots == (DefaultOpensAt - 1)..DefaultClosesAt
Dates == {Today, Today + 1}
Weekdays == 0..6

Calls == 1..MaxCalls
TaskIds == 1..MaxTasks
NoTask == 0
Idle == <<"idle", 0>>
NoTaskYet == [state |-> "none", must_cancel |-> FALSE, cut |-> "none"]
NoCall == [kind |-> "none", pc |-> "idle", task |-> NoTask, stop_returned |-> FALSE]

\* strftime("%H:%M") of a Time column, and time.isoformat() of a provider time
ShortStr(slot) == IF slot = NoTime THEN NoTime ELSE 2 * slot
IsoStr(slot) == IF slot = NoTime THEN NoTime ELSE 2 * slot + 1
\* parse_time inside _time_overlaps: both formats parse to the same time
parse_time(str) == str \div 2

\* datetime.fromisoformat(start_date).weekday()
weekday(d) == d % 7

\* ------------------------------------------------------------ sequences
RECURSIVE SeqToSet(_)
SeqToSet(s) == IF s = <<>> THEN {} ELSE {Head(s)} \cup SeqToSet(Tail(s))

IsBreak(b) == b.type # "consultation"

NonConsultation(blocks) == SelectSeq(blocks, IsBreak)

\* list.sort(key=lambda x: x['start']) is stable: an element goes after every
\* element whose start is <= its own
RECURSIVE InsertSorted(_, _)
InsertSorted(sorted, b) ==
  IF sorted = <<>> THEN <<b>>
  ELSE IF Head(sorted).start <= b.start
       THEN <<Head(sorted)>> \o InsertSorted(Tail(sorted), b)
       ELSE <<b>> \o sorted

RECURSIVE SortByStart(_)
SortByStart(blocks) ==
  IF blocks = <<>> THEN <<>>
  ELSE InsertSorted(SortByStart(SubSeq(blocks, 1, Len(blocks) - 1)), blocks[Len(blocks)])

Consultation(s, e) ==
  [start |-> s, end |-> e, type |-> "consultation", ext |-> NoId, pre |-> FALSE]

\* the walk of _insert_break_into_blocks over the sorted breaks
RECURSIVE FillGaps(_, _, _)
FillGaps(breaks, last_end, closes_at) ==
  IF breaks = <<>>
  THEN IF last_end < closes_at THEN <<Consultation(last_end, closes_at)>> ELSE <<>>
  ELSE LET b == Head(breaks)
           gap == IF last_end < b.start THEN <<Consultation(last_end, b.start)>> ELSE <<>>
       IN gap \o <<b>> \o FillGaps(Tail(breaks), b.end, closes_at)

\* _insert_break_into_blocks; opens_at/closes_at arrive as "HH:MM" strings or
\* None (a closed-day exception), and comparing None with a string raises,
\* which the except branch turns into "return existing_blocks"
insert_break_into_blocks(existing_blocks, new_break, opens_at, closes_at) ==
  IF opens_at = NoTime \/ closes_at = NoTime
  THEN existing_blocks
  ELSE FillGaps(SortByStart(NonConsultation(existing_blocks) \o <<new_break>>),
                opens_at, closes_at)

\* _time_overlaps on strings: False when an argument is missing
time_overlaps_Touching(start1, end1, start2, end2) ==
  IF start1 = NoTime \/ end1 = NoTime \/ start2 = NoTime \/ end2 = NoTime
  THEN FALSE
  ELSE parse_time(start1) <= parse_time(end2) /\ parse_time(end1) >= parse_time(start2)

time_overlaps(start1, end1, start2, end2) ==
  IF start1 = NoTime \/ end1 = NoTime \/ start2 = NoTime \/ end2 = NoTime
  THEN FALSE
  ELSE parse_time(start1) < parse_time(end2) /\ parse_time(end1) > parse_time(start2)


\* ------------------------------------------------------- schedule store
Provider == "google"
Conn == "conn1"

TemplateId(w) == <<"template", w>>
ExceptionId(n) == <<"exception", n>>

HasException(exc, d) == \E x \in exc : x.date = d

\* query(HorarioException).filter(user_id, date).first()
FirstException(exc, d) ==
  CHOOSE x \in exc : x.date = d /\ \A y \in exc : y.date = d => x.id <= y.id

ReplaceException(exc, old, new) == (exc \ {old}) \cup {new}

\* the HorarioTemplate(...) that _sync_weekly_recurring_to_template adds when
\* the weekday has none
NewTemplate ==
  [exists |-> TRUE, is_active |-> TRUE, opens_at |-> DefaultOpensAt,
   closes_at |-> DefaultClosesAt, blocks |-> <<>>]

\* the break built from an event: start_time/end_time without a fraction
NewBreak(event) ==
  [start |-> event.start_time, end |-> event.end_time, type |-> "break",
   ext |-> event.id, pre |-> FALSE]

\* event['start_time'] is missing (a date-only instance) or None: building
\* new_break raises KeyError / TypeError
BreakRaises(event) == event.start_time = NoTime \/ event.end_time = NoTime

RECURSIVE IndexOfRecord(_, _, _, _)
IndexOfRecord(recs, i, ext, local_id) ==
  IF i > Len(recs) THEN 0
  ELSE IF recs[i].ext = ext /\ recs[i].local_id = local_id THEN i
  ELSE IndexOfRecord(recs, i + 1, ext, local_id)

\* a record is added for every mapping, whether one exists for the pair or not
create_synced_event_record_Append(recs, conn, ext, local_id, local_type, direction) ==
  Append(recs, [ext |-> ext, local_id |-> local_id, local_type |-> local_type,
                direction |-> direction, conn |-> conn, status |-> "completed"])

\* _create_synced_event_record: update the record of (user, external_event_id,
\* local_event_id) when there is one, add a new one otherwise
create_synced_event_record(recs, conn, ext, local_id, local_type, direction) ==
  LET i == IndexOfRecord(recs, 1, ext, local_id) IN
  IF i = 0
  THEN Append(recs, [ext |-> ext, local_id |-> local_id, local_type |-> local_type,
                     direction |-> direction, conn |-> conn, status |-> "completed"])
  ELSE [recs EXCEPT ![i].status = "completed"]

\* ----------------------------------------------------- conflict detection
ConflictWith(event, kind, loc, block, owner) ==
  [event |-> event.id, type |-> kind, loc |-> loc, break_type |-> block.type,
   break_start |-> block.start, break_end |-> block.end, owner |-> owner,
   block_ext |-> block.ext]

\* first block of `blocks` that is a break, is not tagged with the event's own
\* id and overlaps the event; 0 when there is none
RECURSIVE FirstOverlap(_, _, _)
FirstOverlap(blocks, i, event) ==
  IF i > Len(blocks) THEN 0
  ELSE IF /\ IsBreak(blocks[i])
          /\ blocks[i].ext # event.id
          /\ time_overlaps(event.start_time, event.end_time,
                           blocks[i].start, blocks[i].end)
       THEN i
       ELSE FirstOverlap(blocks, i + 1, event)

NoConflict == [type |-> "none"]

\* _check_conflict_with_existing
check_conflict_with_existing(tpl, exc, event, skip_event_ids) ==
  IF event.id \in skip_event_ids THEN NoConflict
  ELSE IF event.start_time = NoTime \/ event.end_time = NoTime THEN NoConflict
  ELSE
    LET hasExc == HasException(exc, event.date)
        x == FirstException(exc, event.date)
        i == IF hasExc THEN FirstOverlap(x.blocks, 1, event) ELSE 0
        t == tpl[weekday(event.date)]
        j == IF event.is_recurring /\ t.exists /\ t.is_active
             THEN FirstOverlap(t.blocks, 1, event) ELSE 0
    IN IF i > 0
       THEN ConflictWith(event, "exception_break", event.date, x.blocks[i],
                         ExceptionId(x.id))
       ELSE IF j > 0
       THEN ConflictWith(event, "template_break", weekday(event.date), t.blocks[j],
                         TemplateId(weekday(event.date)))
       ELSE NoConflict

\* the titles of the provider's automatic birthday events (line 486); the
\* first stands for the Spanish title, written here without its accents
PlaceholderTitles == {"Feliz cumpleanos", "Happy Birthday!", "Birthday"}

\* _should_include_event
should_include_event(event) ==
  /\ event.status # "cancelled"
  /\ event.summary \notin PlaceholderTitles


\* --------------------------------------------------------- mapping engine
\* The engine's working state during one call of process_external_events:
\*   tpl, exc, recs, nextId   the store as the session sees it
\*   just                     self.just_synced_ids
\*   conflicts, synced_ids    result['conflicts'], result['synced_event_ids']
\*   routes                   which mapping _process_recurring_group chose, per group
\*   all_day                  result['all_day'], each event with the exceptions
\*                            the session held when its turn came
\*   raised                   an exception left the call

Raise(s) == [s EXCEPT !.raised = TRUE]

\* the conflict scan of _sync_weekly_recurring_to_template (lines 278-304)
WeeklyConflict(template, first_instance) ==
  FirstOverlap(template.blocks, 1, first_instance)

\* _sync_weekly_recurring_to_template
sync_weekly_recurring_to_template(s, group) ==
  IF group.instances = <<>> \/ group.dow = NoDow THEN s
  ELSE
    LET first_instance == group.instances[1]
        w == group.dow
        template == IF s.tpl[w].exists THEN s.tpl[w] ELSE NewTemplate
        s1 == [s EXCEPT !.tpl[w] = template]
        i == WeeklyConflict(template, first_instance)
    IN IF i > 0
       THEN [s1 EXCEPT !.conflicts =
               Append(@, ConflictWith(first_instance, "template_break", w,
                                      template.blocks[i], TemplateId(w)))]
       ELSE IF ~template.is_active THEN s1
       ELSE IF BreakRaises(first_instance) THEN Raise(s1)
       ELSE [s1 EXCEPT
               !.tpl[w].blocks =
                  insert_break_into_blocks(template.blocks, NewBreak(first_instance),
                                           ShortStr(template.opens_at),
                                           ShortStr(template.closes_at)),
               !.recs = create_synced_event_record(@, Conn, first_instance.id,
                                                   TemplateId(w), "template",
                                                   "external_to_internal"),
               !.synced_ids = Append(@, first_instance.id),
               !.just = @ \cup {first_instance.id}]

\* every break of an existing exception that overlaps the instance is reported
\* (lines 387-409)
RECURSIVE ExistingExceptionConflicts(_, _, _, _)
ExistingExceptionConflicts(existing, i, instance, acc) ==
  IF i > Len(existing.blocks) THEN acc
  ELSE LET b == existing.blocks[i]
           hit == /\ IsBreak(b)
                  /\ time_overlaps(instance.start_time, instance.end_time, b.start, b.end)
       IN ExistingExceptionConflicts(existing, i + 1, instance,
            IF hit
            THEN Append(acc, ConflictWith(instance, "exception_break", instance.date, b,
                                          ExceptionId(existing.id)))
            ELSE acc)

\* one iteration of the instance loop of _sync_non_weekly_recurring_to_exceptions
NonWeeklyInstance(s, instance) ==
  IF instance.date < Today \/ instance.date > Today + HorizonDays THEN s
  ELSE IF HasException(s.exc, instance.date)
  THEN [s EXCEPT !.conflicts =
          ExistingExceptionConflicts(FirstException(s.exc, instance.date), 1, instance, @)]
  ELSE
    LET template == s.tpl[weekday(instance.date)] IN
    IF ~(template.exists /\ template.is_active) THEN s
    ELSE IF BreakRaises(instance) THEN Raise(s)
    ELSE
      LET row == [id |-> s.nextId, date |-> instance.date, is_working_day |-> TRUE,
                  opens_at |-> template.opens_at, closes_at |-> template.closes_at,
                  blocks |-> insert_break_into_blocks(template.blocks, NewBreak(instance),
                                                      ShortStr(template.opens_at),
                                                      ShortStr(template.closes_at)),
                  sync_source |-> Provider, ext |-> instance.id, pre |-> FALSE,
                  conn |-> Conn]
      IN [s EXCEPT
            !.exc = @ \cup {row},
            !.nextId = @ + 1,
            !.recs = create_synced_event_record(@, Conn, instance.id,
                                                ExceptionId(row.id), "exception",
                                                "external_to_internal"),
            !.synced_ids = Append(@, instance.id),
            !.just = @ \cup {instance.id}]

\* _sync_non_weekly_recurring_to_exceptions
RECURSIVE sync_non_weekly_recurring_to_exceptions(_, _)
sync_non_weekly_recurring_to_exceptions(s, instances) ==
  IF instances = <<>> \/ s.raised THEN s
  ELSE sync_non_weekly_recurring_to_exceptions(NonWeeklyInstance(s, Head(instances)),
                                               Tail(instances))

\* the branch _process_recurring_group takes (lines 210-229)
GroupRoute(group) ==
  IF group.freq = 0 THEN "none"
  ELSE IF group.freq = 7 THEN "template"
  ELSE IF group.freq % 7 # 0 THEN "exceptions"
  ELSE "template"

\* _process_recurring_group
process_recurring_group(s, group) ==
  LET route == GroupRoute(group)
      s1 == [s EXCEPT !.routes = Append(@, [gid |-> group.gid, route |-> route])]
  IN IF route = "none" THEN s1
     ELSE IF route = "template" THEN sync_weekly_recurring_to_template(s1, group)
     ELSE sync_non_weekly_recurring_to_exceptions(s1, group.instances)

\* _auto_sync_recurrent_event: the store after the call (an exception inside is
\* caught and nothing has been assigned by then)
auto_sync_recurrent_event(s, event) ==
  LET w == weekday(event.date)
      template == s.tpl[w]
  IN IF ~(template.exists /\ template.is_active) \/ BreakRaises(event) THEN s
     ELSE [s EXCEPT
             !.tpl[w].blocks =
                insert_break_into_blocks(template.blocks, NewBreak(event),
                                         ShortStr(template.opens_at),
                                         ShortStr(template.closes_at)),
             !.recs = create_synced_event_record(@, Conn, event.id, TemplateId(w),
                                                 "template", "external_to_internal"),
             !.synced_ids = Append(@, event.id),
             !.just = @ \cup {event.id}]

\* _auto_sync_special_event: locate the exception of the date or seed one from
\* the weekday's active template, then insert the break.  An exception raised
\* while the break is built is caught; the row added before it stays in the
\* session
auto_sync_special_event(s, event) ==
  LET had == HasException(s.exc, event.date)
      template == s.tpl[weekday(event.date)]
      seeded == ~had /\ template.exists /\ template.is_active
      row == [id |-> s.nextId, date |-> event.date, is_working_day |-> TRUE,
              opens_at |-> template.opens_at, closes_at |-> template.closes_at,
              blocks |-> template.blocks, sync_source |-> Provider, ext |-> event.id,
              pre |-> FALSE, conn |-> Conn]
      s1 == IF seeded THEN [s EXCEPT !.exc = @ \cup {row}, !.nextId = @ + 1] ELSE s
  IN IF ~had /\ ~seeded THEN s
     ELSE IF BreakRaises(event) THEN s1
     ELSE
       LET exception == FirstException(s1.exc, event.date)
           updated == [exception EXCEPT !.blocks =
                         insert_break_into_blocks(exception.blocks, NewBreak(event),
                                                  ShortStr(exception.opens_at),
                                                  ShortStr(exception.closes_at))]
       IN [s1 EXCEPT
             !.exc = ReplaceException(@, exception, updated),
             !.recs = create_synced_event_record(@, Conn, event.id,
                                                 ExceptionId(exception.id), "exception",
                                                 "external_to_internal"),
             !.synced_ids = Append(@, event.id),
             !.just = @ \cup {event.id}]

\* a closed-day exception for every date of the span, whether the date has an
\* exception or not
RECURSIVE auto_sync_all_day_event_NoLookup(_, _, _)
auto_sync_all_day_event_NoLookup(s, event, current_date) ==
  IF current_date > event.end_date THEN s
  ELSE
    LET row == [id |-> s.nextId, date |-> current_date, is_working_day |-> FALSE,
                opens_at |-> NoTime, closes_at |-> NoTime, blocks |-> <<>>,
                sync_source |-> Provider, ext |-> event.id, pre |-> FALSE, conn |-> Conn]
    IN auto_sync_all_day_event_NoLookup(
         [s EXCEPT !.exc = @ \cup {row},
                   !.nextId = @ + 1,
                   !.recs = create_synced_event_record(@, Conn, event.id,
                                                       ExceptionId(row.id), "exception",
                                                       "external_to_internal"),
                   !.synced_ids = Append(@, event.id)],
         event, current_date + 1)

\* the loop stops before the last date of the span
RECURSIVE auto_sync_all_day_event_EndExclusive(_, _, _)
auto_sync_all_day_event_EndExclusive(s, event, current_date) ==
  IF current_date >= event.end_date THEN s
  ELSE IF HasException(s.exc, current_date)
  THEN auto_sync_all_day_event_EndExclusive(s, event, current_date + 1)
  ELSE
    LET row == [id |-> s.nextId, date |-> current_date, is_working_day |-> FALSE,
                opens_at |-> NoTime, closes_at |-> NoTime, blocks |-> <<>>,
                sync_source |-> Provider, ext |-> event.id, pre |-> FALSE, conn |-> Conn]
    IN auto_sync_all_day_event_EndExclusive(
         [s EXCEPT !.exc = @ \cup {row},
                   !.nextId = @ + 1,
                   !.recs = create_synced_event_record(@, Conn, event.id,
                                                       ExceptionId(row.id), "exception",
                                                       "external_to_internal"),
                   !.synced_ids = Append(@, event.id)],
         event, current_date + 1)

\* _auto_sync_all_day_event: a closed-day exception for every date of the span
\* that has none
RECURSIVE auto_sync_all_day_event(_, _, _)
auto_sync_all_day_event(s, event, current_date) ==
  IF current_date > event.end_date THEN s
  ELSE IF HasException(s.exc, current_date)
  THEN auto_sync_all_day_event(s, event, current_date + 1)
  ELSE
    LET row == [id |-> s.nextId, date |-> current_date, is_working_day |-> FALSE,
                opens_at |-> NoTime, closes_at |-> NoTime, blocks |-> <<>>,
                sync_source |-> Provider, ext |-> event.id, pre |-> FALSE, conn |-> Conn]
    IN auto_sync_all_day_event(
         [s EXCEPT !.exc = @ \cup {row},
                   !.nextId = @ + 1,
                   !.recs = create_synced_event_record(@, Conn, event.id,
                                                       ExceptionId(row.id), "exception",
                                                       "external_to_internal"),
                   !.synced_ids = Append(@, event.id)],
         event, current_date + 1)


RECURSIVE ProcessGroups(_, _)
ProcessGroups(s, groups) ==
  IF groups = <<>> \/ s.raised THEN s
  ELSE ProcessGroups(process_recurring_group(s, Head(groups)), Tail(groups))

\* the fallback loop over the flat 'recurrent' bucket (lines 89-123)
RecurrentEvent(s, event) ==
  IF ~should_include_event(event) THEN s
  ELSE LET conflict == check_conflict_with_existing(s.tpl, s.exc, event, s.just) IN
       IF conflict # NoConflict
       THEN [s EXCEPT !.conflicts = Append(@, conflict)]
       ELSE auto_sync_recurrent_event(s, event)

RECURSIVE ProcessRecurrent(_, _)
ProcessRecurrent(s, events) ==
  IF events = <<>> \/ s.raised THEN s
  ELSE ProcessRecurrent(RecurrentEvent(s, Head(events)), Tail(events))

\* a loop body that syncs the event although it reported a conflict
SpecialEvent_SyncAnyway(s, event) ==
  IF ~should_include_event(event) THEN s
  ELSE LET conflict == check_conflict_with_existing(s.tpl, s.exc, event, s.just) IN
       IF conflict # NoConflict
       THEN auto_sync_special_event([s EXCEPT !.conflicts = Append(@, conflict)], event)
       ELSE auto_sync_special_event(s, event)

\* the loop over the 'special' bucket (lines 126-157)
SpecialEvent(s, event) ==
  IF ~should_include_event(event) THEN s
  ELSE LET conflict == check_conflict_with_existing(s.tpl, s.exc, event, s.just) IN
       IF conflict # NoConflict
       THEN [s EXCEPT !.conflicts = Append(@, conflict)]
       ELSE auto_sync_special_event(s, event)

RECURSIVE ProcessSpecial(_, _)
ProcessSpecial(s, events) ==
  IF events = <<>> \/ s.raised THEN s
  ELSE ProcessSpecial(SpecialEvent(s, Head(events)), Tail(events))

\* the loop over the 'all_day' bucket (lines 160-169)
AllDayEvent(s, event) ==
  IF ~should_include_event(event) THEN s
  ELSE auto_sync_all_day_event([s EXCEPT !.all_day = Append(@, [event |-> event,
                                                                exc |-> s.exc])],
                               event, event.date)

RECURSIVE ProcessAllDay(_, _)
ProcessAllDay(s, events) ==
  IF events = <<>> \/ s.raised THEN s
  ELSE ProcessAllDay(AllDayEvent(s, Head(events)), Tail(events))

\* process_external_events: a fresh CalendarSyncService (empty just_synced_ids)
\* over the store; the buckets in the order of the code
process_external_events(tpl, exc, recs, id, external_events) ==
  LET s0 == [tpl |-> tpl, exc |-> exc, recs |-> recs, nextId |-> id, just |-> {},
             conflicts |-> <<>>, synced_ids |-> <<>>, routes |-> <<>>,
             all_day |-> <<>>, raised |-> FALSE]
      s1 == ProcessGroups(s0, external_events.grouped)
      s2 == IF external_events.grouped = <<>>
            THEN ProcessRecurrent(s1, external_events.recurrent)
            ELSE s1
      s3 == ProcessSpecial(s2, external_events.special)
  IN ProcessAllDay(s3, external_events.all_day)

\* ------------------------------------------------- recurrence patterns
\* GoogleCalendarService.analyze_recurrence_pattern.  A recurrence rule is
\* read as the code splits it: rrule says whether the string starts with
\* 'RRULE:', parts are the KEY=VALUE pieces between the semicolons, in order.
\* The value of INTERVAL is what int() makes of it: digits says whether it
\* parses, n is the number.  The value of BYDAY is the list of day codes it
\* contains.
\* frequency_days None
NoFrequency == 0

NoPart == [present |-> FALSE]

Part(key, value) == [key |-> key, value |-> value]

\* components[key] after the loop of lines 205-208: the last part with the
\* key wins
RECURSIVE Component(_, _)
Component(parts, key) ==
  IF parts = <<>> THEN NoPart
  ELSE LET last == parts[Len(parts)] IN
       IF last.key = key THEN [present |-> TRUE, value |-> last.value]
       ELSE Component(SubSeq(parts, 1, Len(parts) - 1), key)

\* Sunday is day 0, Monday day 1
day_map_SundayFirst(day_code) ==
  CASE day_code = "SU" -> 0 [] day_code = "MO" -> 1 [] day_code = "TU" -> 2
    [] day_code = "WE" -> 3 [] day_code = "TH" -> 4 [] day_code = "FR" -> 5
    [] day_code = "SA" -> 6

\* day_map (line 223)
day_map(day_code) ==
  CASE day_code = "MO" -> 0 [] day_code = "TU" -> 1 [] day_code = "WE" -> 2
    [] day_code = "TH" -> 3 [] day_code = "FR" -> 4 [] day_code = "SA" -> 5
    [] day_code = "SU" -> 6

DayCodes == <<"MO", "TU", "WE", "TH", "FR", "SA", "SU">>

\* lines 225-228: the first code of day_map, in the order of the dict, that
\* occurs in the BYDAY value
RECURSIVE FirstDayIn(_, _, _)
FirstDayIn(byday, i, day_of_week) ==
  IF i > Len(DayCodes) THEN day_of_week
  ELSE IF DayCodes[i] \in SeqToSet(byday) THEN day_map(DayCodes[i])
  ELSE FirstDayIn(byday, i + 1, day_of_week)

\* the body of the loop over the rules (lines 197-241) for one rule
AnalyzeRule(pattern, rule) ==
  IF ~rule.rrule THEN pattern
  ELSE
    LET p0 == [pattern EXCEPT !.rule = rule.parts]
        FREQ == Component(rule.parts, "FREQ")
        INTERVAL == Component(rule.parts, "INTERVAL")
        BYDAY == Component(rule.parts, "BYDAY")
        freq == IF FREQ.present THEN FREQ.value ELSE ""
        interval == IF INTERVAL.present THEN INTERVAL.value.n ELSE 1
    IN IF INTERVAL.present /\ ~INTERVAL.value.digits THEN p0
       ELSE IF freq = "DAILY"
       THEN [p0 EXCEPT !.frequency_days = interval, !.pattern_type = "daily"]
       ELSE IF freq = "WEEKLY"
       THEN [p0 EXCEPT !.frequency_days = 7 * interval,
                       !.pattern_type = IF interval = 1 THEN "weekly" ELSE "custom",
                       !.day_of_week = IF BYDAY.present
                                       THEN FirstDayIn(BYDAY.value, 1, @) ELSE @]
       ELSE IF freq = "MONTHLY"
       THEN [p0 EXCEPT !.frequency_days = 30 * interval, !.pattern_type = "monthly"]
       ELSE IF freq = "YEARLY"
       THEN [p0 EXCEPT !.frequency_days = 365 * interval, !.pattern_type = "yearly"]
       ELSE p0

RECURSIVE AnalyzeRules(_, _)
AnalyzeRules(pattern, rules) ==
  IF rules = <<>> THEN pattern
  ELSE AnalyzeRules(AnalyzeRule(pattern, Head(rules)), Tail(rules))

analyze_recurrence_pattern(recurrence_rules) ==
  IF recurrence_rules = <<>> THEN [fn |-> "analyze_recurrence_pattern", empty |-> TRUE]
  ELSE [fn |-> "analyze_recurrence_pattern", empty |-> FALSE,
        pattern |-> AnalyzeRules([frequency_days |-> NoFrequency, day_of_week |-> NoDow,
                                  pattern_type |-> "custom", rule |-> <<>>],
                                 recurrence_rules)]

\* ------------------------------------------------------------- write-back
\* Step 3 of sync_calendars (merge_calendars is on for a Google connection).
\* The provider's calendar is the set of events the writer created there and
\* that were not deleted since: id is the name the provider gave the event,
\* item the row and the block (0 for the day itself) the event was made from,
\* body what the writer sent.
\* The provider names its events in the order it creates them.
PushedId(k) == <<"w", k>>

PushedRecord(k, local_id, local_type) ==
  [ext |-> PushedId(k), local_id |-> local_id, local_type |-> local_type,
   direction |-> "internal_to_external", conn |-> Conn, status |-> "completed"]

\* _day_to_rrule
day_to_rrule(day_of_week) ==
  IF 0 <= day_of_week /\ day_of_week <= 6 THEN DayCodes[day_of_week + 1] ELSE "MO"

\* _get_next_weekday: the day itself is not taken
get_next_weekday(day_of_week) ==
  LET days_ahead == day_of_week - weekday(Today)
  IN Today + (IF days_ahead <= 0 THEN days_ahead + 7 ELSE days_ahead)

\* the event sync_break_to_calendar inserts: a weekly series from the next
\* such weekday on for a break of a template (is_recurring), an event on the
\* date for a break of an exception; the times are read with the writer's
\* _parse_time
BreakBody(break_info, is_recurring, day) ==
  [date |-> IF is_recurring THEN get_next_weekday(day) ELSE day,
   all_day |-> FALSE,
   start |-> parse_time(break_info.start),
   end |-> parse_time(break_info.end),
   recurrence |-> IF is_recurring
                  THEN <<[rrule |-> TRUE,
                          parts |-> <<Part("FREQ", "WEEKLY"),
                                      Part("BYDAY", <<day_to_rrule(day)>>)>>]>>
                  ELSE <<>>]

\* the all-day event sync_closed_day_to_calendar and
\* sync_special_hours_to_calendar insert
DayBody(date) ==
  [date |-> date, all_day |-> TRUE, start |-> NoTime, end |-> NoTime, recurrence |-> <<>>]

PushedEvent(k, local_id, block, body) ==
  [id |-> PushedId(k), item |-> <<local_id, block>>, body |-> body]

IsOwnBreak(b) == IsBreak(b) /\ b.ext = NoId

\* positions of the blocks of a row that satisfy keep, in order
Positions(blocks, keep(_)) ==
  SelectSeq([j \in 1..Len(blocks) |-> j], LAMBDA j : keep(blocks[j]))

\* the external_event_ids of the records written back for the connection
PushedIds(recs) ==
  {recs[i].ext : i \in {j \in 1..Len(recs) : /\ recs[j].conn = Conn
                                             /\ recs[j].direction = "internal_to_external"}}

\* GoogleCalendarWriterService.delete_event for each id: the event is gone
\* when the provider answers, it stays when the call fails (False is returned)
delete_events(provider, ids, ok) ==
  IF ok THEN {e \in provider : e.id \notin ids} ELSE provider

\* sync_break_to_calendar for the blocks at positions idx of one row: the
\* events the provider creates (none when the call fails and None is returned)
CreatedBreaks(st, local_id, blocks, idx, is_recurring, day, ok) ==
  IF ok
  THEN {PushedEvent(st.seq + k, local_id, idx[k],
                    BreakBody(blocks[idx[k]], is_recurring, day)) : k \in 1..Len(idx)}
  ELSE {}

\* the loop over the active templates (lines 603-635): a record for each break
\* without external_event_id whose event was created
RECURSIVE WriteTemplates(_, _, _, _)
WriteTemplates(tpl, w, st, ok) ==
  IF w > 6 THEN st
  ELSE IF ~(tpl[w].exists /\ tpl[w].is_active)
  THEN WriteTemplates(tpl, w + 1, st, ok)
  ELSE LET idx == Positions(tpl[w].blocks, IsOwnBreak)
           made == CreatedBreaks(st, TemplateId(w), tpl[w].blocks, idx, TRUE, w, ok)
           new == [k \in 1..Cardinality(made) |->
                     PushedRecord(st.seq + k, TemplateId(w), "template")]
       IN WriteTemplates(tpl, w + 1,
                         [recs |-> st.recs \o new, provider |-> st.provider \cup made,
                          seq |-> st.seq + Cardinality(made)], ok)

\* the template the exception's hours are compared with at line 657 is the
\* loop variable left by the loop over the active templates; all of the
\* user's templates open at the same time
LeftoverOpensAt == DefaultOpensAt

\* the record of an exception whose own event was created (lines 677-690)
RecordIfCreated(st, x, ok) ==
  IF ok
  THEN [recs |-> Append(st.recs, PushedRecord(st.seq + 1, ExceptionId(x.id), "exception")),
        provider |-> st.provider \cup {PushedEvent(st.seq + 1, ExceptionId(x.id), 0,
                                             DayBody(x.date))},
        seq |-> st.seq + 1]
  ELSE st

\* lines 664-673: every block of the exception that is not a consultation is
\* sent with sync_break_to_calendar and the id it returns is dropped
ExceptionBreaks(st, x, ok) ==
  LET idx == Positions(x.blocks, IsBreak)
      made == CreatedBreaks(st, ExceptionId(x.id), x.blocks, idx, FALSE, x.date, ok)
  IN [st EXCEPT !.provider = @ \cup made, !.seq = @ + Cardinality(made)]

\* one exception of the loop over the exceptions from today on (lines 638-693)
WriteException(st, x, ok) ==
  IF x.sync_source \notin {"none", "manual"} THEN st
  ELSE IF ~x.is_working_day THEN RecordIfCreated(st, x, ok)
  ELSE IF x.opens_at # LeftoverOpensAt
  THEN ExceptionBreaks(RecordIfCreated(st, x, ok), x, ok)
  ELSE st

RECURSIVE WriteExceptions(_, _, _, _, _)
WriteExceptions(exc, id, lastId, st, ok) ==
  IF id > lastId THEN st
  ELSE IF \E x \in exc : x.id = id /\ x.date >= Today
  THEN WriteExceptions(exc, id + 1, lastId,
                       WriteException(st, CHOOSE x \in exc : x.id = id, ok), ok)
  ELSE WriteExceptions(exc, id + 1, lastId, st, ok)

\* the write-back: the records of the previous write-back are deleted with
\* their events, then the templates and the exceptions are written; seq is the
\* number of events the provider has created so far, ok whether the provider
\* answers the writer's calls
write_back(tpl, exc, recs, lastId, provider, seq, ok) ==
  LET kept == SelectSeq(recs, LAMBDA r : ~(r.conn = Conn
                                           /\ r.direction = "internal_to_external"))
      st == [recs |-> kept, provider |-> delete_events(provider, PushedIds(recs), ok),
             seq |-> seq]
      t == WriteTemplates(tpl, 0, st, ok)
  IN WriteExceptions(exc, 1, lastId, t, ok)

\* --------------------------------------------------- connect / disconnect
FlagBlock(b) == IF IsBreak(b) /\ b.ext = NoId THEN [b EXCEPT !.pre = TRUE] ELSE b

FlagBlocks(blocks) == [i \in 1..Len(blocks) |-> FlagBlock(blocks[i])]

\* track_pre_existing_events: templates
TrackTemplates(tpl) ==
  [w \in Weekdays |->
     IF tpl[w].exists THEN [tpl[w] EXCEPT !.blocks = FlagBlocks(@)] ELSE tpl[w]]

\* track_pre_existing_events: exceptions with sync_source == None
TrackExceptions(exc) ==
  {IF x.sync_source = "none" THEN [x EXCEPT !.pre = TRUE] ELSE x : x \in exc}

\* blocks of a template without the ones tagged with the record's event
StripBlocks(blocks, ext) == SelectSeq(blocks, LAMBDA b : b.ext # ext)

\* cleanup that only deletes exceptions and leaves template breaks in place
CleanupRecord_ExceptionsOnly(st, synced) ==
  IF synced.direction = "external_to_internal" /\ synced.local_type = "exception"
  THEN [st EXCEPT !.exc = {x \in @ : ExceptionId(x.id) # synced.local_id},
                  !.count = @ + 1]
  ELSE st

\* one iteration of the loop of cleanup_synced_events (lines 912-936); count
\* is the number the function returns
CleanupRecord(st, synced) ==
  IF synced.direction # "external_to_internal" THEN st
  ELSE IF synced.local_type = "exception"
  THEN IF \E x \in st.exc : ExceptionId(x.id) = synced.local_id
       THEN [st EXCEPT !.exc = {x \in @ : ExceptionId(x.id) # synced.local_id},
                       !.count = @ + 1]
       ELSE st
  ELSE IF synced.local_type = "template"
  THEN LET w == synced.local_id[2]
           template == st.tpl[w]
       IN IF template.exists /\ template.blocks # <<>>
          THEN LET kept == StripBlocks(template.blocks, synced.ext) IN
               [st EXCEPT !.tpl[w].blocks = kept,
                          !.count = IF Len(kept) < Len(template.blocks) THEN @ + 1 ELSE @]
          ELSE st
  ELSE st

RECURSIVE CleanupLoop(_, _)
CleanupLoop(st, synced_events) ==
  IF synced_events = <<>> THEN st
  ELSE CleanupLoop(CleanupRecord(st, Head(synced_events)), Tail(synced_events))

\* cleanup_synced_events(user, connection): every record of the connection is
\* undone and deleted
cleanup_synced_events(tpl, exc, recs, connection_id) ==
  LET mine == SelectSeq(recs, LAMBDA r : r.conn = connection_id)
      st == CleanupLoop([tpl |-> tpl, exc |-> exc, count |-> 0], mine)
  IN [tpl |-> st.tpl, exc |-> st.exc,
      recs |-> SelectSeq(recs, LAMBDA r : r.conn # connection_id),
      count |-> st.count]

\* ------------------------------------------------------ the provider feed
\* What the categorizers hand to process_external_events
\* (GoogleCalendarService._parse_event / _categorize_and_group_events):
\* times are time.isoformat() strings; an instance of a series may be
\* date-only and then has no start_time/end_time; one-off events of the
\* 'special' bucket always have times; all-day events have a date span.
\* The first instance of the series and the one-off events fall on day 0, an
\* all-day event starts on day 0 and lasts one or two days.
Event(id, d, d2, st, et, rec) ==
  [id |-> id, date |-> d, end_date |-> d2, start_time |-> st, end_time |-> et,
   summary |-> "ok", status |-> "confirmed", is_recurring |-> rec]

\* an event takes one slot (the one before the opening or one of the working
\* day) or the whole working day
Ranges ==
  {r \in Slots \X Slots : r[2] = r[1] + 1} \cup {<<DefaultOpensAt, DefaultClosesAt>>}

\* (frequency_days, day_of_week) as analyze_recurrence_pattern produces them:
\* 0 stands for no cadence (None); day_of_week only comes from a WEEKLY BYDAY
Patterns == {<<0, NoDow>>, <<7, NoDow>>, <<7, 0>>, <<8, NoDow>>, <<14, NoDow>>, <<14, 0>>}

InstanceTimes == {<<IsoStr(r[1]), IsoStr(r[2])>> : r \in Ranges} \cup {<<NoTime, NoTime>>}

\* the k-th instance of a series lies (k-1) periods after the first
Instances(n, period, tm) ==
  [k \in 1..n |-> Event(<<"g", k>>, Today + (k - 1) * period, Today + (k - 1) * period,
                        tm[1], tm[2], TRUE)]

\* a weekly and an 8-day series are given every time of day, the others one
TimesOf(p) ==
  IF p[1] \notin {7, 8} \/ (p[1] % 7 = 0 /\ p[2] = NoDow)
  THEN {<<IsoStr(DefaultOpensAt), IsoStr(DefaultOpensAt + 1)>>}
  ELSE InstanceTimes

Groups(n) ==
  UNION {{[gid |-> <<"G", 1>>, freq |-> p[1], dow |-> p[2],
           instances |-> Instances(n, IF p[1] = 0 THEN 1 ELSE p[1], tm)] :
             tm \in TimesOf(p)} : p \in Patterns}

Specials(k) ==
  {[i \in 1..k |-> Event(<<"s", i>>, c[i][1], c[i][1], IsoStr(c[i][2][1]),
                         IsoStr(c[i][2][2]), FALSE)] :
      c \in [1..k -> {Today} \X Ranges]}

AllDays(m) ==
  {[i \in 1..m |-> Event(<<"a", i>>, c[i][1], c[i][2], NoTime, NoTime, FALSE)] :
      c \in [1..m -> {Today} \X Dates]}

\* a feed with one series, and the same instances as a flat 'recurrent' bucket
\* without a group (the master of the series is not among the raw events)
GroupedFeeds(n, k, m) ==
  {[grouped |-> <<g>>, recurrent |-> g.instances, special |-> sp, all_day |-> ad] :
      g \in Groups(n), sp \in Specials(k), ad \in AllDays(m)}

FlatFeeds(n, k, m) ==
  {[grouped |-> <<>>, recurrent |-> Instances(n, 1, tm), special |-> sp, all_day |-> ad] :
      tm \in InstanceTimes, sp \in Specials(k), ad \in AllDays(m)}

FeedShapes ==
  {sh \in (0..MaxFeedEvents) \X (0..MaxFeedEvents) \X (0..MaxFeedEvents) :
      sh[1] + sh[2] + sh[3] \in 1..MaxFeedEvents}

Feeds ==
  UNION {IF sh[1] = 0 THEN FlatFeeds(0, sh[2], sh[3])
         ELSE GroupedFeeds(sh[1], sh[2], sh[3]) \cup FlatFeeds(sh[1], sh[2], sh[3]) :
           sh \in FeedShapes}

\* ------------------------------------------- the user's schedule at start
UserBlock(a, b, kind) ==
  [start |-> ShortStr(a), end |-> ShortStr(b), type |-> kind, ext |-> NoId, pre |-> FALSE]

PlainTemplate ==
  [exists |-> TRUE, is_active |-> TRUE, opens_at |-> DefaultOpensAt,
   closes_at |-> DefaultClosesAt,
   blocks |-> <<Consultation(ShortStr(DefaultOpensAt), ShortStr(DefaultClosesAt))>>]

\* Monday's template: none, inactive, without breaks, with a lunch break
MondayTemplates ==
  {NoTpl,
   [PlainTemplate EXCEPT !.is_active = FALSE],
   PlainTemplate,
   [PlainTemplate EXCEPT !.blocks = <<Consultation(ShortStr(1), ShortStr(2)),
                                      UserBlock(2, 3, "lunch")>>]}

\* the user's own exception on day 0: none, a working day with a break, a
\* working day that opens one slot early and has a break, a day off
UserExceptions ==
  {{},
   {[id |-> 1, date |-> Today, is_working_day |-> TRUE, opens_at |-> DefaultOpensAt,
     closes_at |-> DefaultClosesAt,
     blocks |-> <<UserBlock(1, 2, "break"), Consultation(ShortStr(2), ShortStr(3))>>,
     sync_source |-> "none", ext |-> NoId, pre |-> FALSE, conn |-> "none"]},
   {[id |-> 1, date |-> Today, is_working_day |-> TRUE, opens_at |-> DefaultOpensAt - 1,
     closes_at |-> DefaultClosesAt,
     blocks |-> <<Consultation(ShortStr(0), ShortStr(1)), UserBlock(1, 2, "break"),
                  Consultation(ShortStr(2), ShortStr(3))>>,
     sync_source |-> "none", ext |-> NoId, pre |-> FALSE, conn |-> "none"]},
   {[id |-> 1, date |-> Today, is_working_day |-> FALSE, opens_at |-> NoTime,
     closes_at |-> NoTime, blocks |-> <<>>, sync_source |-> "none", ext |-> NoId,
     pre |-> FALSE, conn |-> "none"]}}

\* Monday's template with the user's exceptions: an exception of the user's
\* own comes with the plain template
UserSchedules ==
  {<<mon, {}>> : mon \in MondayTemplates}
    \cup {<<PlainTemplate, exc>> : exc \in UserExceptions \ {{}}}

\* ------------------------------------------------------------------ state
VARIABLES
  templates,      \* HorarioTemplate rows of the user, by weekday
  exceptions,     \* HorarioException rows of the user
  synced_events,  \* SyncedEvent rows, in insertion order
  nextId,         \* next primary key of a HorarioException
  feed,           \* the user's own events at the provider, as they are categorized
  connected,      \* the CalendarConnection is active
  passes,         \* sync passes run so far
  result,         \* what the last operation returned
  tracked,        \* the store right after track_pre_existing_events
  before,         \* the store before the last sync pass
  consec,         \* consecutive sync passes since the last connect/disconnect
  provider_events,\* the events the writer created in the provider's calendar
  provider_seq,   \* how many events the provider has created for the writer
  last_sync_status, \* CalendarConnection.last_sync_status
  last_sync_error,  \* CalendarConnection.last_sync_error is set
  sync_settings,    \* CalendarConnection.sync_settings
  resolved,       \* the conflict the last resolve-conflicts request was about
  args,           \* the arguments of a call of one of the services' functions
  returned,       \* what that call returned
  auto_sync_tasks,\* the task registered for the user in auto_sync_tasks, or NoTask
  tasks,          \* the auto_sync_task tasks created so far
  calls,          \* the requests: their handler's position
  waiters,        \* the handlers suspended at "await task", in the order they began
  running,        \* the coroutine that holds the event loop in the middle of a pass
  quiet,          \* disconnect's stop_auto_sync returned and no task was registered since
  late_pass       \* an auto-sync task started a pass while quiet

storeVars == <<templates, exceptions, synced_events, nextId, feed, connected, passes,
               result, tracked, before, consec, provider_events, provider_seq,
               last_sync_status, last_sync_error, sync_settings, resolved, args,
               returned>>

loopVars == <<auto_sync_tasks, tasks, calls, waiters, running, quiet, late_pass>>

vars == <<storeVars, loopVars>>

Store == [tpl |-> templates, exc |-> exceptions, recs |-> synced_events]

NoResolution == [type |-> "none"]

NoArgs == [fn |-> "none"]

NoReturn == [fn |-> "none"]

NoResult == [kind |-> "none", conflicts |-> <<>>, synced_ids |-> <<>>, routes |-> <<>>,
             all_day |-> <<>>,
             raised |-> FALSE, removed |-> 0, success |-> TRUE, fault |-> "none"]

\* ------------------------------------------------------ the sync settings
\* sync_settings is a JSON dict: the set of its (key, value) pairs.  The
\* empty set stands for a connection that has no row yet and for the values
\* None and {}, which the code tests alike
NoSettings == {}

Dict(merge_calendars, receive_notifications) ==
  {<<"merge_calendars", merge_calendars>>,
   <<"receive_notifications", receive_notifications>>}

Truthy(d) == d # {}

Has(d, key) == \E p \in d : p[1] = key

\* d.get(key, default)
Get(d, key, default) == IF Has(d, key) THEN (CHOOSE p \in d : p[1] = key)[2] ELSE default

\* d[key] = value
Put(d, key, value) == {p \in d : p[1] # key} \cup {<<key, value>>}

\* the value is written as the request gives it
StickyMerge_AsRequested(settings, requested) == requested

\* merge_calendars stays True if it was True (lines 484-485, 918-919)
StickyMerge(settings, requested) ==
  IF Truthy(settings) /\ Get(settings, "merge_calendars", FALSE) THEN TRUE ELSE requested

\* SyncRequest (lines 67-69)
SyncRequests == [merge_calendars : BOOLEAN, receive_notifications : BOOLEAN]

\* the SyncRequest sync_now and the auto-sync task build from the connection
\* (lines 886-891, 982-985)
StoredRequest ==
  [merge_calendars |-> Get(sync_settings, "merge_calendars", TRUE),
   receive_notifications |-> Get(sync_settings, "receive_notifications", FALSE)]

\* google_calendar_callback up to its await: track_pre_existing_events, then the
\* connection is (re)activated and committed (lines 268-307)
TrackAndActivate ==
  /\ templates' = TrackTemplates(templates)
  /\ exceptions' = TrackExceptions(exceptions)
  /\ tracked' = [tpl |-> templates', exc |-> {x \in exceptions' : x.pre}]
  /\ connected' = TRUE
  /\ result' = [NoResult EXCEPT !.kind = "connect"]
  /\ consec' = 0
  /\ resolved' = NoResolution
  /\ sync_settings' = IF Truthy(sync_settings)
                      THEN Put(sync_settings, "merge_calendars", TRUE)
                      ELSE Dict(TRUE, FALSE)
  /\ UNCHANGED <<synced_events, nextId, feed, passes, before, provider_events,
                 provider_seq, last_sync_status, last_sync_error, args, returned>>

\* what can go wrong in a pass: nothing; the refresh of an expired token is
\* rejected (line 507); the token is rejected by the calls of get_all_events
\* and of the writer; the commit that ends the write-back (line 695) fails
PassFaults == {"none", "refresh", "fetch", "commit"}

\* the events the writer holds in the provider's calendar, in the order the
\* provider created them
InOrder(provider) ==
  [i \in 1..Cardinality(provider) |->
     CHOOSE e \in provider : Cardinality({f \in provider : f.id[2] < e.id[2]}) = i - 1]

\* the id of the first expanded instance of a series
InstanceId(id) == <<"i", id[2]>>

\* _parse_event of a written event (an instance of it when it is a series):
\* the times come back as time.isoformat()
ParsedEvent(e) ==
  IF e.body.all_day
  THEN Event(e.id, e.body.date, e.body.date, NoTime, NoTime, FALSE)
  ELSE Event(IF e.body.recurrence = <<>> THEN e.id ELSE InstanceId(e.id),
             e.body.date, e.body.date, IsoStr(e.body.start), IsoStr(e.body.end),
             e.body.recurrence # <<>>)

\* the group _categorize_and_group_events makes of a written series (lines
\* 105-127, 143-151); of its instances the first is kept
SeriesGroup(e) ==
  LET pattern == analyze_recurrence_pattern(e.body.recurrence).pattern
  IN [gid |-> e.id, freq |-> pattern.frequency_days, dow |-> pattern.day_of_week,
      instances |-> <<ParsedEvent(e)>>]

RECURSIVE Categorize(_, _)
Categorize(events, buckets) ==
  IF events = <<>> THEN buckets
  ELSE LET e == Head(events)
           parsed == ParsedEvent(e)
       IN Categorize(Tail(events),
            IF e.body.recurrence # <<>>
            THEN [buckets EXCEPT !.grouped = Append(@, SeriesGroup(e)),
                                 !.recurrent = Append(@, parsed)]
            ELSE IF e.body.all_day
            THEN [buckets EXCEPT !.all_day = Append(@, parsed)]
            ELSE [buckets EXCEPT !.special = Append(@, parsed)])

\* get_all_events: the events of calendar 'primary' (lines 52-74), which holds
\* the user's own events (feed) and the events the writer inserted there,
\* categorized; empty buckets when a call to the provider raises (lines 85-91)
get_all_events(fault) ==
  IF fault = "fetch"
  THEN [grouped |-> <<>>, recurrent |-> <<>>, special |-> <<>>, all_day |-> <<>>]
  ELSE Categorize(InOrder(provider_events), feed)

\* the body of sync_calendars once the connection is found.  The settings
\* are assigned from the request (lines 484-490).  A rejected refresh returns
\* at line 530 with nothing committed.  Otherwise: process_external_events,
\* the write-back when the engine returned and the request has merge_calendars
\* (lines 527, 585), then the commit of line 728 with last_sync_status
\* 'success'; when the engine or the write-back's commit raises, what was
\* not committed is rolled back and line 753 commits last_sync_status
\* 'failed' with the message.
RunPassWith(fault, request) ==
  /\ IF fault = "refresh"
     THEN /\ result' = [NoResult EXCEPT !.kind = "pass", !.success = FALSE, !.fault = fault]
          /\ UNCHANGED <<templates, exceptions, synced_events, nextId, provider_events,
                         provider_seq, last_sync_status, last_sync_error, sync_settings>>
     ELSE \E merge \in {StickyMerge(sync_settings, request.merge_calendars)} :
          \E s \in {process_external_events(templates, exceptions, synced_events, nextId,
                                            get_all_events(fault))} :
          \E wb \in {IF merge
                     THEN write_back(s.tpl, s.exc, s.recs, s.nextId - 1, provider_events,
                                     provider_seq, fault # "fetch")
                     ELSE [recs |-> s.recs, provider |-> provider_events,
                           seq |-> provider_seq]} :
          LET failed == s.raised \/ fault = "commit"
          IN /\ templates' = s.tpl
             /\ exceptions' = s.exc
             /\ synced_events' = IF failed THEN s.recs ELSE wb.recs
             /\ provider_events' = IF s.raised THEN provider_events ELSE wb.provider
             /\ provider_seq' = IF s.raised THEN provider_seq ELSE wb.seq
             /\ nextId' = s.nextId
             /\ last_sync_status' = IF failed THEN "failed" ELSE "success"
             /\ last_sync_error' = IF failed THEN "message" ELSE "none"
             /\ sync_settings' = IF fault = "commit" THEN sync_settings
                                 ELSE Dict(merge, request.receive_notifications)
             /\ result' = [kind |-> "pass", conflicts |-> s.conflicts,
                           synced_ids |-> s.synced_ids, routes |-> s.routes,
                           all_day |-> s.all_day,
                           raised |-> s.raised, removed |-> 0, success |-> ~failed,
                           fault |-> fault]
  /\ before' = Store
  /\ consec' = consec + 1
  /\ passes' = passes + 1
  /\ UNCHANGED <<feed, connected, tracked, resolved, returned>>

\* a pass with the request of sync_now and of the auto-sync task
RunPass(fault) == RunPassWith(fault, StoredRequest) /\ UNCHANGED args

\* line 437 comes after the try block of the provider's cleanup (lines
\* 401-434): cleanup_synced_events runs whatever happened there
CleanupRuns_IfProviderOk(provider_failed) == ~provider_failed

CleanupRuns(provider_failed) == TRUE

ProviderFault(refresh_error, failing) ==
  IF refresh_error \/ failing # {} THEN "provider" ELSE "none"

\* disconnect_calendar after stop_auto_sync: when merge_calendars is set, the
\* events of the written-back records are deleted at the provider unless the refresh of the token raises
\* (refresh_error) or delete_event fails for the event (failing), then
\* cleanup_synced_events, then the connection is deactivated (lines 401-445)
CleanupAndDeactivate(refresh_error, failing) ==
  /\ provider_events' =
       IF refresh_error \/ ~Get(sync_settings, "merge_calendars", FALSE)
       THEN provider_events
       ELSE delete_events(provider_events, PushedIds(synced_events) \ failing, TRUE)
  /\ IF CleanupRuns(refresh_error \/ failing # {})
     THEN /\ \E st \in {cleanup_synced_events(templates, exceptions, synced_events, Conn)} :
                /\ templates' = st.tpl
                /\ exceptions' = st.exc
                /\ synced_events' = st.recs
                /\ result' = [NoResult EXCEPT !.kind = "cleanup", !.removed = st.count,
                                               !.fault = ProviderFault(refresh_error, failing)]
          /\ connected' = FALSE
     ELSE /\ result' = [NoResult EXCEPT !.kind = "cleanup", !.success = FALSE,
                                         !.fault = ProviderFault(refresh_error, failing)]
          /\ UNCHANGED <<templates, exceptions, synced_events, connected>>
  /\ consec' = 0
  /\ resolved' = NoResolution
  /\ UNCHANGED <<nextId, feed, passes, tracked, before, provider_seq, last_sync_status,
                 last_sync_error, sync_settings, args, returned>>

\* ------------------------------------------------- the engine on the store
\* the event loop before any request
LoopInit ==
  /\ auto_sync_tasks = NoTask
  /\ tasks = [t \in TaskIds |-> NoTaskYet]
  /\ calls = [c \in Calls |-> NoCall]
  /\ waiters = <<>>
  /\ running = Idle
  /\ quiet = FALSE
  /\ late_pass = FALSE

\* the state before the first connection, with a feed out of feeds
StartWith(feeds) ==
  /\ \E user \in UserSchedules :
       /\ templates = [w \in Weekdays |-> IF w = 0 THEN user[1] ELSE PlainTemplate]
       /\ exceptions = user[2]
  /\ synced_events = <<>>
  /\ nextId = 2
  /\ feed \in feeds
  /\ connected = FALSE
  /\ passes = 0
  /\ result = NoResult
  /\ tracked = [tpl |-> templates, exc |-> {}]
  /\ before = Store
  /\ consec = 0
  /\ provider_events = {}
  /\ provider_seq = 0
  /\ last_sync_status = "none"
  /\ last_sync_error = "none"
  /\ sync_settings = NoSettings
  /\ resolved = NoResolution
  /\ args = NoArgs
  /\ returned = NoReturn
  /\ LoopInit

Init == StartWith(Feeds)

\* a first connection or a reconnection, with no other request in flight
Connect ==
  /\ ~connected
  /\ passes < MaxPasses
  /\ TrackAndActivate
  /\ UNCHANGED loopVars

\* one pass of sync_calendars
SyncPass ==
  /\ connected
  /\ passes < MaxPasses
  /\ RunPass("none")
  /\ UNCHANGED loopVars

\* disconnect_calendar
Disconnect ==
  /\ connected
  /\ CleanupAndDeactivate(FALSE, {})
  /\ UNCHANGED loopVars

Next == Connect \/ SyncPass \/ Disconnect

Spec == Init /\ [][Next]_vars

\* ------------------------------------- the engine with a failing provider
\* feeds with one one-off event or one all-day event, for the specifications
\* that add faults or other requests to the passes
SingleEventFeeds == FlatFeeds(0, 1, 0) \cup FlatFeeds(0, 0, 1)

SingleEventInit == StartWith(SingleEventFeeds)

\* one pass of sync_calendars in which fault happens
SyncAttempt(fault) ==
  /\ connected
  /\ passes < MaxPasses
  /\ RunPass(fault)
  /\ UNCHANGED loopVars

\* disconnect_calendar while the provider fails as refresh_error and failing say
DisconnectAttempt(refresh_error, failing) ==
  /\ connected
  /\ refresh_error => failing = {}
  /\ CleanupAndDeactivate(refresh_error, failing)
  /\ UNCHANGED loopVars

FaultNext ==
  \/ Connect
  \/ \E fault \in PassFaults : SyncAttempt(fault)
  \/ \E refresh_error \in BOOLEAN : \E failing \in SUBSET PushedIds(synced_events) :
       DisconnectAttempt(refresh_error, failing)

FaultSpec == SingleEventInit /\ [][FaultNext]_vars

\* ------------------------------------------------- requests on the settings
\* the bodies PUT /settings is sent: dicts over the two keys
SettingsUpdates ==
  {{}} \cup {{<<"merge_calendars", m>>} : m \in BOOLEAN}
       \cup {{<<"receive_notifications", n>>} : n \in BOOLEAN}
       \cup {Dict(m, n) : m, n \in BOOLEAN}

\* POST /sync with the request the client sends
SyncRequest(request) ==
  /\ connected
  /\ passes < MaxPasses
  /\ RunPassWith("none", request)
  /\ args' = [fn |-> "sync_calendars", request |-> request]
  /\ UNCHANGED loopVars

\* POST /sync-now
SyncNow ==
  /\ connected
  /\ passes < MaxPasses
  /\ RunPassWith("none", StoredRequest)
  /\ args' = [fn |-> "sync_now", request |-> StoredRequest]
  /\ UNCHANGED loopVars

\* PUT /settings (update_sync_settings, lines 899-931)
UpdateSettings(settings_update) ==
  /\ connected
  /\ sync_settings' = IF StickyMerge(sync_settings, FALSE)
                      THEN Put(settings_update, "merge_calendars", TRUE)
                      ELSE settings_update
  /\ args' = [fn |-> "update_sync_settings", settings_update |-> settings_update]
  /\ result' = [NoResult EXCEPT !.kind = "settings"]
  /\ UNCHANGED <<templates, exceptions, synced_events, nextId, feed, connected, passes,
                 tracked, before, consec, provider_events, provider_seq,
                 last_sync_status, last_sync_error, resolved, returned>>
  /\ UNCHANGED loopVars

SettingsNext ==
  \/ Connect
  \/ \E request \in SyncRequests : SyncRequest(request)
  \/ SyncNow
  \/ \E settings_update \in SettingsUpdates : UpdateSettings(settings_update)
  \/ Disconnect

SettingsSpec == SingleEventInit /\ [][SettingsNext]_vars

\* ------------------------------------------------- conflict resolution
ResolutionTypes == {"merge_sum", "merge_combine", "keep_external", "keep_internal"}

\* CalendarSyncService.resolve_conflict: the store it is given comes back as
\* it was, with the dict the method returns
resolve_conflict(st, event_id, resolution_type) ==
  [store |-> st, resolved |-> TRUE, resolution_type |-> resolution_type,
   event_id |-> event_id]

\* POST /resolve-conflicts with one resolution, for the i-th conflict the
\* last pass reported
ResolveConflicts(i, resolution_type) ==
  /\ result.kind = "pass"
  /\ i \in 1..Len(result.conflicts)
  /\ LET conflict == result.conflicts[i]
         r == resolve_conflict(Store, conflict.event, resolution_type)
     IN /\ templates' = r.store.tpl
        /\ exceptions' = r.store.exc
        /\ synced_events' = r.store.recs
        /\ resolved' = [type |-> r.resolution_type, conflict |-> conflict]
        /\ result' = [NoResult EXCEPT !.kind = "resolve", !.success = r.resolved]
  /\ UNCHANGED <<nextId, feed, connected, passes, tracked, before, consec,
                 provider_events, provider_seq, last_sync_status, last_sync_error,
                 sync_settings, args, returned>>
  /\ UNCHANGED loopVars

ResolveNext ==
  \/ Connect
  \/ SyncPass
  \/ Disconnect
  \/ \E i \in 1..MaxFeedEvents : \E resolution_type \in ResolutionTypes :
       ResolveConflicts(i, resolution_type)

ResolveSpec == SingleEventInit /\ [][ResolveNext]_vars

\* ------------------------------------------------------- classification
\* feeds with one event of any kind
OneEventFeeds == GroupedFeeds(1, 0, 0) \cup FlatFeeds(1, 0, 0) \cup SingleEventFeeds

Classifications == {"lunch", "break"}

\* the ids a classification request can name: those of the feed's events
ClassifiableIds ==
  {e.id : e \in SeqToSet(feed.special) \cup SeqToSet(feed.all_day)
                 \cup SeqToSet(feed.recurrent)}
    \cup UNION {{e.id : e \in SeqToSet(feed.grouped[g].instances)} :
                  g \in 1..Len(feed.grouped)}

\* the blocks of a template with the classification on those of the event
ClassifyBlocks(blocks, external_event_id, classification) ==
  [j \in 1..Len(blocks) |->
     IF blocks[j].ext = external_event_id
     THEN [blocks[j] EXCEPT !.type = classification]
     ELSE blocks[j]]

\* str(uuid.uuid4()): an id no record carries yet
NewUuid(recs) ==
  <<"uuid", 1 + Cardinality({i \in 1..Len(recs) : recs[i].local_type = "pending"})>>

HasRecordOf(recs, ext) == \E i \in 1..Len(recs) : recs[i].ext = ext

\* classify_recurrent_event: the blocks of the event in every template take
\* the classification; the first record of the event gets it in its
\* metadata, and when the event has no record a 'pending' one is added under
\* a new local id
classify_recurrent_event(tpl, recs, external_event_id, classification) ==
  [tpl |-> [w \in Weekdays |->
              IF tpl[w].exists
              THEN [tpl[w] EXCEPT !.blocks =
                      ClassifyBlocks(@, external_event_id, classification)]
              ELSE tpl[w]],
   recs |-> IF HasRecordOf(recs, external_event_id) THEN recs
            ELSE Append(recs, [ext |-> external_event_id, local_id |-> NewUuid(recs),
                               local_type |-> "pending",
                               direction |-> "external_to_internal",
                               conn |-> "none", status |-> "pending"])]

\* POST /classify-recurrent with one classification
ClassifyRecurrent(external_event_id, classification) ==
  /\ LET st == classify_recurrent_event(templates, synced_events, external_event_id,
                                        classification)
     IN /\ templates' = st.tpl
        /\ synced_events' = st.recs
  /\ result' = [NoResult EXCEPT !.kind = "classify"]
  /\ UNCHANGED <<exceptions, nextId, feed, connected, passes, tracked, before, consec,
                 provider_events, provider_seq, last_sync_status, last_sync_error,
                 sync_settings, resolved, args, returned>>
  /\ UNCHANGED loopVars

ClassifyInit == StartWith(OneEventFeeds)

\* a pass keeps the records of its write-back or, when the commit of the
\* write-back fails, none of them
ClassifyNext ==
  \/ Connect
  \/ \E fault \in {"none", "commit"} : SyncAttempt(fault)
  \/ Disconnect
  \/ \E external_event_id \in ClassifiableIds : \E classification \in Classifications :
       ClassifyRecurrent(external_event_id, classification)

ClassifySpec == ClassifyInit /\ [][ClassifyNext]_vars


\* ------------------------------------------------------- the event loop
\* Every handler and every auto_sync_task is a coroutine of one asyncio event
\* loop: a coroutine runs from one await to the next without any other
\* coroutine running.  A pass of sync_calendars is taken in three steps
\* (fetch, process, commit); `running` names the coroutine that is between two
\* of them without having awaited.
PassSteps == {"fetch", "process", "commit"}

AfterStep(step) ==
  IF step = "fetch" THEN "process" ELSE IF step = "process" THEN "commit" ELSE "end"

\* a pass that awaits the provider's answer
PassYields_AtFetch(step) == step = "fetch"

\* the await points inside the body of sync_calendars: there is none
PassYields(step) == FALSE

CallCo(c) == <<"call", c>>
TaskCo(t) == <<"task", t>>

FreeTasks == {t \in TaskIds : tasks[t].state = "none"}

\* asyncio.create_task(auto_sync_task(user_id, connection_id))
NewTaskId == CHOOSE t \in FreeTasks : \A u \in FreeTasks : t <= u

CreatedTask == [state |-> "new", must_cancel |-> FALSE, cut |-> "none"]

\* `await task` returns without suspending when there is no task to await or
\* the task is done
StopIsImmediate == auto_sync_tasks = NoTask \/ tasks[auto_sync_tasks].state = "done"

\* handlers resume in the order in which they began to await the task
FirstWaiterOf(t) ==
  LET idx == {i \in 1..Len(waiters) : calls[waiters[i]].task = t}
  IN waiters[CHOOSE i \in idx : \A j \in idx : i <= j]

WithoutWaiter(c) == SelectSeq(waiters, LAMBDA w : w # c)

CanResume(c, kind) ==
  /\ calls[c].kind = kind
  /\ calls[c].pc = "await"
  /\ tasks[calls[c].task].state = "done"
  /\ FirstWaiterOf(calls[c].task) = c
  /\ running = Idle

\* the server, itself on the event loop, accepts a request and schedules its
\* handler (in the order of the call numbers)
Request(c, kind) ==
  /\ calls[c].pc = "idle"
  /\ running = Idle
  /\ c > 1 => calls[c - 1].pc # "idle"
  /\ calls' = [calls EXCEPT ![c] = [NoCall EXCEPT !.kind = kind, !.pc = "ready"]]
  /\ UNCHANGED <<storeVars, auto_sync_tasks, tasks, waiters, running, quiet, late_pass>>

\* stop_auto_sync up to `await task` (lines 951-955): the registered task is
\* cancelled and the handler suspends
CancelAndAwait(c) ==
  /\ tasks' = [tasks EXCEPT ![auto_sync_tasks].must_cancel = TRUE]
  /\ calls' = [calls EXCEPT ![c].pc = "await", ![c].task = auto_sync_tasks]
  /\ waiters' = Append(waiters, c)
  /\ UNCHANGED <<auto_sync_tasks, running, quiet, late_pass>>

\* setup_auto_sync after stop_auto_sync has returned (lines 941-942)
CreateAndRegister(c) ==
  /\ FreeTasks # {}
  /\ tasks' = [tasks EXCEPT ![NewTaskId] = CreatedTask]
  /\ auto_sync_tasks' = NewTaskId
  /\ calls' = [calls EXCEPT ![c].pc = "done", ![c].stop_returned = TRUE]
  /\ quiet' = FALSE
  /\ UNCHANGED <<running, late_pass>>

\* google_calendar_callback up to the first suspension
Callback(c) ==
  /\ calls[c].kind = "callback"
  /\ calls[c].pc = "ready"
  /\ running = Idle
  /\ TrackAndActivate
  /\ IF StopIsImmediate
     THEN CreateAndRegister(c) /\ UNCHANGED waiters
     ELSE CancelAndAwait(c)

\* setup_auto_sync resumes in stop_auto_sync after `await task`:
\* del auto_sync_tasks[user_id] raises KeyError when another handler removed
\* the entry, and setup_auto_sync's except swallows it without creating a task
CallbackResume(c) ==
  /\ CanResume(c, "callback")
  /\ waiters' = WithoutWaiter(c)
  /\ IF auto_sync_tasks = NoTask
     THEN /\ calls' = [calls EXCEPT ![c].pc = "done"]
          /\ UNCHANGED <<auto_sync_tasks, tasks, running, quiet, late_pass>>
     ELSE CreateAndRegister(c)
  /\ UNCHANGED storeVars

\* disconnect_calendar once stop_auto_sync has returned
FinishDisconnect(c) ==
  /\ auto_sync_tasks' = NoTask
  /\ CleanupAndDeactivate(FALSE, {})
  /\ calls' = [calls EXCEPT ![c].pc = "done", ![c].stop_returned = TRUE]
  /\ quiet' = TRUE
  /\ UNCHANGED <<tasks, running, late_pass>>

\* disconnect_calendar up to the first suspension; without an active
\* connection it answers with an error
DisconnectCall(c) ==
  /\ calls[c].kind = "disconnect"
  /\ calls[c].pc = "ready"
  /\ running = Idle
  /\ IF ~connected
     THEN /\ calls' = [calls EXCEPT ![c].pc = "failed"]
          /\ UNCHANGED <<storeVars, auto_sync_tasks, tasks, waiters, running, quiet,
                         late_pass>>
     ELSE IF StopIsImmediate
     THEN FinishDisconnect(c) /\ UNCHANGED waiters
     ELSE CancelAndAwait(c) /\ UNCHANGED storeVars

\* disconnect_calendar resumes in stop_auto_sync: the KeyError of del leaves
\* the handler through its except (HTTP 500) before any cleanup
DisconnectResume(c) ==
  /\ CanResume(c, "disconnect")
  /\ waiters' = WithoutWaiter(c)
  /\ IF auto_sync_tasks = NoTask
     THEN /\ calls' = [calls EXCEPT ![c].pc = "failed"]
          /\ UNCHANGED <<storeVars, auto_sync_tasks, tasks, running, quiet, late_pass>>
     ELSE FinishDisconnect(c)

\* POST /sync and POST /sync-now: without an active connection the handler
\* returns at once, otherwise the pass begins
SyncCall(c) ==
  /\ calls[c].kind = "sync"
  /\ calls[c].pc = "ready"
  /\ running = Idle
  /\ IF ~connected
     THEN /\ calls' = [calls EXCEPT ![c].pc = "done"]
          /\ UNCHANGED running
     ELSE /\ passes < MaxPasses
          /\ calls' = [calls EXCEPT ![c].pc = "fetch"]
          /\ running' = CallCo(c)
  /\ UNCHANGED <<storeVars, auto_sync_tasks, tasks, waiters, quiet, late_pass>>

\* one step of a pass: get_all_events, then the engine and the write-back,
\* then the commit
PassStep(me, step) ==
  /\ running \in {Idle, me}
  /\ running' = IF AfterStep(step) = "end" \/ PassYields(step) THEN Idle ELSE me
  /\ IF step = "process" THEN RunPass("none") ELSE UNCHANGED storeVars

CallPass(c) ==
  /\ calls[c].pc \in PassSteps
  /\ PassStep(CallCo(c), calls[c].pc)
  /\ calls' = [calls EXCEPT ![c].pc =
                 IF AfterStep(@) = "end" THEN "done" ELSE AfterStep(@)]
  /\ UNCHANGED <<auto_sync_tasks, tasks, waiters, quiet, late_pass>>

\* the first step of a task: a task cancelled before it ran never enters its
\* coroutine
TaskStart(t) ==
  /\ tasks[t].state = "new"
  /\ running = Idle
  /\ tasks' = [tasks EXCEPT ![t] =
                 IF @.must_cancel THEN [@ EXCEPT !.state = "done", !.cut = "new"]
                 ELSE [@ EXCEPT !.state = "sleep300"]]
  /\ UNCHANGED <<storeVars, auto_sync_tasks, calls, waiters, running, quiet, late_pass>>

\* asyncio.sleep(300) is over and the connection is active: the task calls
\* sync_calendars
TaskWake(t) ==
  /\ tasks[t].state = "sleep300"
  /\ ~tasks[t].must_cancel
  /\ running = Idle
  /\ connected
  /\ passes < MaxPasses
  /\ tasks' = [tasks EXCEPT ![t].state = "fetch"]
  /\ running' = TaskCo(t)
  /\ late_pass' = (late_pass \/ quiet)
  /\ UNCHANGED <<storeVars, auto_sync_tasks, calls, waiters, quiet>>

\* the session or a query of the task raises: except Exception, sleep(60)
TaskDbError(t) ==
  /\ tasks[t].state = "sleep300"
  /\ ~tasks[t].must_cancel
  /\ running = Idle
  /\ tasks' = [tasks EXCEPT ![t].state = "sleep60"]
  /\ UNCHANGED <<storeVars, auto_sync_tasks, calls, waiters, running, quiet, late_pass>>

TaskRetry(t) ==
  /\ tasks[t].state = "sleep60"
  /\ ~tasks[t].must_cancel
  /\ running = Idle
  /\ tasks' = [tasks EXCEPT ![t].state = "sleep300"]
  /\ UNCHANGED <<storeVars, auto_sync_tasks, calls, waiters, running, quiet, late_pass>>

TaskPass(t) ==
  /\ tasks[t].state \in PassSteps
  /\ ~(running = Idle /\ tasks[t].must_cancel)
  /\ PassStep(TaskCo(t), tasks[t].state)
  /\ tasks' = [tasks EXCEPT ![t].state =
                 IF AfterStep(@) = "end" THEN "sleep300" ELSE AfterStep(@)]
  /\ UNCHANGED <<auto_sync_tasks, calls, waiters, quiet, late_pass>>

\* CancelledError is thrown into the task at the await where it is suspended:
\* in sleep(300) the except clause breaks the loop, in sleep(60) it leaves the
\* coroutine
TaskCancelled(t) ==
  /\ tasks[t].state \in {"sleep300", "sleep60"} \cup PassSteps
  /\ tasks[t].must_cancel
  /\ running = Idle
  /\ tasks' = [tasks EXCEPT ![t].state = "done", ![t].cut = tasks[t].state]
  /\ UNCHANGED <<storeVars, auto_sync_tasks, calls, waiters, running, quiet, late_pass>>

\* a plain schedule and a feed with one one-off event
LoopFeed ==
  [grouped |-> <<>>, recurrent |-> <<>>,
   special |-> <<Event(<<"s", 1>>, Today, Today, IsoStr(DefaultOpensAt),
                       IsoStr(DefaultOpensAt + 1), FALSE)>>,
   all_day |-> <<>>]

\* the store of a user with the plain week and nothing synced, the event loop
\* before any request
AtRest ==
  /\ templates = [w \in Weekdays |-> PlainTemplate]
  /\ exceptions = {}
  /\ synced_events = <<>>
  /\ nextId = 2
  /\ feed = LoopFeed
  /\ connected = FALSE
  /\ passes = 0
  /\ result = NoResult
  /\ tracked = [tpl |-> templates, exc |-> {}]
  /\ before = Store
  /\ consec = 0
  /\ provider_events = {}
  /\ provider_seq = 0
  /\ last_sync_status = "none"
  /\ last_sync_error = "none"
  /\ sync_settings = NoSettings
  /\ resolved = NoResolution
  /\ LoopInit

AsyncInit ==
  /\ AtRest
  /\ args = NoArgs
  /\ returned = NoReturn

AsyncNext ==
  \/ \E c \in Calls : \E kind \in {"callback", "disconnect", "sync"} : Request(c, kind)
  \/ \E c \in Calls : Callback(c)
  \/ \E c \in Calls : CallbackResume(c)
  \/ \E c \in Calls : DisconnectCall(c)
  \/ \E c \in Calls : DisconnectResume(c)
  \/ \E c \in Calls : SyncCall(c)
  \/ \E c \in Calls : CallPass(c)
  \/ \E t \in TaskIds : TaskStart(t)
  \/ \E t \in TaskIds : TaskWake(t)
  \/ \E t \in TaskIds : TaskDbError(t)
  \/ \E t \in TaskIds : TaskRetry(t)
  \/ \E t \in TaskIds : TaskPass(t)
  \/ \E t \in TaskIds : TaskCancelled(t)

AsyncSpec == AsyncInit /\ [][AsyncNext]_vars

\* ------------------------------------- calls of analyze_recurrence_pattern
MaxInterval == 3

\* the rules the calls are made with: FREQ absent, one of the four cadences or
\* another one; INTERVAL absent, a number or not a number; BYDAY absent, one
\* day or two
FreqParts == {<<>>} \cup {<<Part("FREQ", f)>> :
                            f \in {"DAILY", "WEEKLY", "MONTHLY", "YEARLY", "HOURLY"}}

IntervalParts ==
  {<<>>, <<Part("INTERVAL", [digits |-> FALSE, n |-> 0])>>}
    \cup {<<Part("INTERVAL", [digits |-> TRUE, n |-> n])>> : n \in 1..MaxInterval}

ByDayParts ==
  {<<>>, <<Part("BYDAY", <<"TU", "MO">>)>>, <<Part("BYDAY", <<"SA", "SU">>)>>}
    \cup {<<Part("BYDAY", <<DayCodes[i]>>)>> : i \in 1..Len(DayCodes)}

Rules ==
  {[rrule |-> r, parts |-> f \o i \o b] :
     r \in BOOLEAN, f \in FreqParts, i \in IntervalParts, b \in ByDayParts}

PatternInit ==
  /\ AtRest
  /\ args \in {[fn |-> "analyze_recurrence_pattern", recurrence_rules |-> <<rule>>] :
                 rule \in Rules}
  /\ returned = NoReturn

\* the call returns
AnalyzePattern ==
  /\ args.fn = "analyze_recurrence_pattern"
  /\ returned = NoReturn
  /\ returned' = analyze_recurrence_pattern(args.recurrence_rules)
  /\ UNCHANGED <<templates, exceptions, synced_events, nextId, feed, connected, passes,
                 result, tracked, before, consec, provider_events, provider_seq,
                 last_sync_status, last_sync_error, sync_settings, resolved, args>>
  /\ UNCHANGED loopVars

PatternNext == AnalyzePattern

PatternSpec == PatternInit /\ [][PatternNext]_vars


\* ============================================ conflict resolution service
\* ConflictResolutionService (services/conflict_resolution_service.py): pure
\* functions over dictionaries that carry times as strings.
\*
\* A time string is a record [fmt, minute, second, fraction]: fmt "HM" is
\* 'HH:MM', fmt "HMS" is 'HH:MM:SS' with an optional '.ffffff' part
\* (fraction = TRUE), which is what time.isoformat() of the provider's parser
\* produces.  minute is the minute of the day, second the second of the minute.
\* A datetime.time value is the number of seconds since midnight.

SecondsPerMinute == 60

MinutesPerDay == 1440

\* 12:30, 13:00, 13:30, 14:00 and 23:30
SampleMinutes == {750, 780, 810, 840, 1410}

SampleSeconds == {0, 30}

HM(minute) == [fmt |-> "HM", minute |-> minute, second |-> 0, fraction |-> FALSE]

HMS(minute, second, fraction) ==
  [fmt |-> "HMS", minute |-> minute, second |-> second, fraction |-> fraction]

\* _parse_time: the part after '.' is cut off, then '%H:%M:%S' or '%H:%M'
cr_parse_time(time_str) ==
  LET cut == [time_str EXCEPT !.fraction = FALSE]
  IN SecondsPerMinute * cut.minute + cut.second

\* _time_to_string: strftime('%H:%M') prints the hour and the minute only
cr_time_to_string(t) == HM(t \div SecondsPerMinute)

\* _times_overlap
times_overlap(start1, end1, start2, end2) == start1 < end2 /\ end1 > start2

\* _time_diff_minutes: int(total_seconds() / 60), truncated towards zero
time_diff_minutes(start, end) ==
  IF end >= start THEN (end - start) \div SecondsPerMinute
  ELSE -((start - end) \div SecondsPerMinute)

\* _add_minutes_to_time: the date of the sum is dropped by dt.time()
add_minutes_to_time(t, minutes) ==
  (t + SecondsPerMinute * minutes) % (SecondsPerMinute * MinutesPerDay)

MinTime(a, b) == IF a <= b THEN a ELSE b

MaxTime(a, b) == IF a >= b THEN a ELSE b

MergedBreak(start, end, internal_break, external_event, reason) ==
  [start |-> start, end |-> end, type |-> internal_break.type,
   external_event_id |-> external_event.id, reason |-> reason]

\* _merge_sum
merge_sum(external_event, internal_break) ==
  LET external_start == cr_parse_time(external_event.start_time)
      external_end == cr_parse_time(external_event.end_time)
      internal_start == cr_parse_time(internal_break.start)
      internal_end == cr_parse_time(internal_break.end)
      total_duration == time_diff_minutes(external_start, external_end)
                          + time_diff_minutes(internal_start, internal_end)
      new_start == MinTime(external_start, internal_start)
      new_end == add_minutes_to_time(new_start, total_duration)
  IN [action |-> "merge",
      new_break |-> MergedBreak(cr_time_to_string(new_start), cr_time_to_string(new_end),
                             internal_break, external_event, "suma")]

\* _merge_combine
merge_combine(external_event, internal_break) ==
  LET external_start == cr_parse_time(external_event.start_time)
      external_end == cr_parse_time(external_event.end_time)
      internal_start == cr_parse_time(internal_break.start)
      internal_end == cr_parse_time(internal_break.end)
      new_start == MinTime(external_start, internal_start)
      new_end == MaxTime(external_end, internal_end)
  IN [action |-> "merge",
      new_break |-> MergedBreak(cr_time_to_string(new_start), cr_time_to_string(new_end),
                             internal_break, external_event, "combinado")]

CrResolutionTypes ==
  {"merge_sum", "merge_combine", "keep_external", "keep_internal", "unknown"}

\* ConflictResolutionService.resolve_conflict
cr_resolve_conflict(conflict, resolution_type) ==
  LET external_event == conflict.external_event
      internal_break == conflict.internal_break
      done(r) == [fn |-> "resolve_conflict", raised |-> FALSE, value |-> r]
  IN CASE resolution_type = "merge_sum" ->
            done(merge_sum(external_event, internal_break))
       [] resolution_type = "merge_combine" ->
            done(merge_combine(external_event, internal_break))
       [] resolution_type = "keep_external" ->
            done([action |-> "replace",
                  new_break |-> MergedBreak(external_event.start_time,
                                         external_event.end_time,
                                         internal_break, external_event,
                                         "sincronizado")])
       [] resolution_type = "keep_internal" ->
            done([action |-> "keep", break |-> internal_break])
       [] OTHER ->
            [fn |-> "resolve_conflict", raised |-> TRUE, value |-> "ValueError"]

\* the time strings of an external event: time.isoformat()
ExternalTimeStrings ==
  {HMS(m, sec, f) : m \in SampleMinutes, sec \in SampleSeconds, f \in BOOLEAN}

\* the time strings of a block of the schedule: 'HH:MM' as the schedule editor
\* writes them, 'HH:MM:SS' as the sync engine copies them from an event
InternalTimeStrings ==
  {HM(m) : m \in SampleMinutes} \cup {HMS(m, 30, FALSE) : m \in SampleMinutes}

ExternalEvents ==
  {[id |-> "e1", start_time |-> a, end_time |-> b] :
     <<a, b>> \in {p \in ExternalTimeStrings \X ExternalTimeStrings :
                     cr_parse_time(p[1]) < cr_parse_time(p[2])}}

InternalBreaks ==
  {[start |-> a, end |-> b, type |-> "lunch"] :
     <<a, b>> \in {p \in InternalTimeStrings \X InternalTimeStrings :
                     cr_parse_time(p[1]) < cr_parse_time(p[2])}}

\* detect_conflict: the pair of an event and a break of the schedule whose
\* ranges overlap
detect_conflict(external_event, block) ==
  /\ block.type # "consultation"
  /\ times_overlap(cr_parse_time(external_event.start_time),
                   cr_parse_time(external_event.end_time),
                   cr_parse_time(block.start), cr_parse_time(block.end))

Conflicts ==
  {[type |-> "break_conflict", external_event |-> e, internal_break |-> b] :
     <<e, b>> \in {p \in ExternalEvents \X InternalBreaks : detect_conflict(p[1], p[2])}}

MergeInit ==
  /\ AtRest
  /\ args \in {[fn |-> "resolve_conflict", conflict |-> c, resolution_type |-> t] :
                 c \in Conflicts, t \in CrResolutionTypes}
  /\ returned = NoReturn

\* the call returns or raises
ResolveConflict ==
  /\ args.fn = "resolve_conflict"
  /\ returned = NoReturn
  /\ returned' = cr_resolve_conflict(args.conflict, args.resolution_type)
  /\ UNCHANGED <<templates, exceptions, synced_events, nextId, feed, connected, passes,
                 result, tracked, before, consec, provider_events, provider_seq,
                 last_sync_status, last_sync_error, sync_settings, resolved, args>>
  /\ UNCHANGED loopVars

MergeNext == ResolveConflict

MergeSpec == MergeInit /\ [][MergeNext]_vars

\* ------------------------------------------------------- filtered events
\* Feeds whose events all carry a placeholder title.  A cancelled event never
\* gets as far as the engine: both providers' parsers drop it.
Retitled(events, title) == [i \in 1..Len(events) |-> [events[i] EXCEPT !.summary = title]]

RetitledFeed(f, title) ==
  [grouped |-> [g \in 1..Len(f.grouped) |->
                  [f.grouped[g] EXCEPT !.instances = Retitled(@, title)]],
   recurrent |-> Retitled(f.recurrent, title),
   special |-> Retitled(f.special, title),
   all_day |-> Retitled(f.all_day, title)]

PlaceholderFeeds == {RetitledFeed(f, title) : f \in OneEventFeeds, title \in PlaceholderTitles}

FilterInit == StartWith(PlaceholderFeeds)

FilterNext ==
  \/ Connect
  \/ SyncPass
  \/ Disconnect

FilterSpec == FilterInit /\ [][FilterNext]_vars

\* ------------------------------------------- merging overlapping breaks
\* breaks in one call of merge_overlapping_breaks
MaxBreaks == 3

\* sorted(breaks, key=lambda x: self._parse_time(x['start'])) is stable
RECURSIVE InsertByStart(_, _)
InsertByStart(sorted, b) ==
  IF sorted = <<>> THEN <<b>>
  ELSE IF cr_parse_time(Head(sorted).start) <= cr_parse_time(b.start)
       THEN <<Head(sorted)>> \o InsertByStart(Tail(sorted), b)
       ELSE <<b>> \o sorted

RECURSIVE SortedBreaks(_)
SortedBreaks(breaks) ==
  IF breaks = <<>> THEN <<>>
  ELSE InsertByStart(SortedBreaks(SubSeq(breaks, 1, Len(breaks) - 1)), breaks[Len(breaks)])

\* the loop of lines 203-216.  The reason of a break is the sequence of its
\* parts; the empty sequence stands for a break without the key 'reason'.
RECURSIVE MergeLoop(_, _)
MergeLoop(merged, rest) ==
  IF rest = <<>> THEN merged
  ELSE
    LET current_break == Head(rest)
        last_merged == merged[Len(merged)]
    IN IF cr_parse_time(current_break.start) <= cr_parse_time(last_merged.end)
       THEN MergeLoop(
              [merged EXCEPT ![Len(merged)] =
                 [last_merged EXCEPT
                    !.end = cr_time_to_string(MaxTime(cr_parse_time(last_merged.end),
                                                      cr_parse_time(current_break.end))),
                    !.reason = IF current_break.reason # <<>>
                               THEN @ \o <<"+">> \o current_break.reason
                               ELSE @]],
              Tail(rest))
       ELSE MergeLoop(Append(merged, current_break), Tail(rest))

\* merge_overlapping_breaks
merge_overlapping_breaks(breaks) ==
  IF breaks = <<>> THEN <<>>
  ELSE LET sorted_breaks == SortedBreaks(breaks)
       IN MergeLoop(<<Head(sorted_breaks)>>, Tail(sorted_breaks))

BreakTimeStrings == {HM(750), HM(780), HM(810), HMS(780, 30, FALSE)}

BreaksToMerge ==
  {[start |-> p[1], end |-> p[2], type |-> "break", reason |-> r] :
     p \in {q \in BreakTimeStrings \X BreakTimeStrings :
              cr_parse_time(q[1]) < cr_parse_time(q[2])},
     r \in {<<>>, <<"r">>}}

BreakLists == UNION {[1..n -> BreaksToMerge] : n \in 0..MaxBreaks}

MergeBreaksInit ==
  /\ AtRest
  /\ args \in {[fn |-> "merge_overlapping_breaks", breaks |-> l] : l \in BreakLists}
  /\ returned = NoReturn

MergeBreaks ==
  /\ args.fn = "merge_overlapping_breaks"
  /\ returned = NoReturn
  /\ returned' = [fn |-> "merge_overlapping_breaks",
                  value |-> merge_overlapping_breaks(args.breaks)]
  /\ UNCHANGED <<templates, exceptions, synced_events, nextId, feed, connected, passes,
                 result, tracked, before, consec, provider_events, provider_seq,
                 last_sync_status, last_sync_error, sync_settings, resolved, args>>
  /\ UNCHANGED loopVars

MergeBreaksNext == MergeBreaks

MergeBreaksSpec == MergeBreaksInit /\ [][MergeBreaksNext]_vars

\* ------------------------------------------- break insertion, on its own
\* last slot of the days _insert_break_into_blocks is applied to on its own
MaxSlot == 5

\* a day without breaks: no block at all, or one consultation block from
\* opening to closing
BreakFreeBlocks(opens_at, closes_at) ==
  {<<>>, <<Consultation(ShortStr(opens_at), ShortStr(closes_at))>>}

\* opening and closing as Time values and a timed event between them, its
\* times as the providers' parsers write them (isoformat)
InsertCalls ==
  UNION {{[fn |-> "insert_break_into_blocks", existing_blocks |-> blocks,
           event |-> Event(<<"s", 1>>, Today, Today, IsoStr(q[3]), IsoStr(q[4]), FALSE),
           opens_at |-> q[1], closes_at |-> q[2]] :
            blocks \in BreakFreeBlocks(q[1], q[2])} :
           q \in {c \in (0..MaxSlot) \X (0..MaxSlot) \X (0..MaxSlot) \X (0..MaxSlot) :
                   c[1] <= c[3] /\ c[3] < c[4] /\ c[4] <= c[2]}}

InsertInit ==
  /\ AtRest
  /\ args \in InsertCalls
  /\ returned = NoReturn

\* the call as the engine makes it (lines 306-313): the break is built from
\* the event, opens_at and closes_at are Time values turned into 'HH:MM'
InsertBreak ==
  /\ args.fn = "insert_break_into_blocks"
  /\ returned = NoReturn
  /\ returned' = [fn |-> "insert_break_into_blocks",
                  blocks |-> insert_break_into_blocks(args.existing_blocks,
                                                      NewBreak(args.event),
                                                      ShortStr(args.opens_at),
                                                      ShortStr(args.closes_at))]
  /\ UNCHANGED <<templates, exceptions, synced_events, nextId, feed, connected, passes,
                 result, tracked, before, consec, provider_events, provider_seq,
                 last_sync_status, last_sync_error, sync_settings, resolved, args>>
  /\ UNCHANGED loopVars

InsertNext == InsertBreak

InsertSpec == InsertInit /\ [][InsertNext]_vars

\* ------------------------------------------------- the two overlap tests
\* A range of the day by its two slots, and the ways it is written as a pair
\* of strings: 'HH:MM' as the schedule stores it, isoformat as events carry it.
TimeRanges == {r \in Slots \X Slots : r[1] < r[2]}

Writings(slot) == {ShortStr(slot), IsoStr(slot)}

StringRanges ==
  {[range |-> r, start |-> a, end |-> b] :
     <<r, a, b>> \in {q \in TimeRanges \X (0..(2 * DefaultClosesAt + 1))
                                     \X (0..(2 * DefaultClosesAt + 1)) :
                        q[2] \in Writings(q[1][1]) /\ q[3] \in Writings(q[1][2])}}

OverlapInit ==
  /\ AtRest
  /\ args \in {[fn |-> "overlap", a |-> a, b |-> b] : a, b \in StringRanges}
  /\ returned = NoReturn

\* both tests on the pair, in both orders: _time_overlaps on the strings,
\* _times_overlap on the time values
OverlapTest ==
  /\ args.fn = "overlap"
  /\ returned = NoReturn
  /\ returned' =
       [fn |-> "overlap",
        strings |-> time_overlaps(args.a.start, args.a.end, args.b.start, args.b.end),
        strings_swapped |->
          time_overlaps(args.b.start, args.b.end, args.a.start, args.a.end),
        values |-> times_overlap(args.a.range[1], args.a.range[2],
                                 args.b.range[1], args.b.range[2]),
        values_swapped |-> times_overlap(args.b.range[1], args.b.range[2],
                                         args.a.range[1], args.a.range[2])]
  /\ UNCHANGED <<templates, exceptions, synced_events, nextId, feed, connected, passes,
                 result, tracked, before, consec, provider_events, provider_seq,
                 last_sync_status, last_sync_error, sync_settings, resolved, args>>
  /\ UNCHANGED loopVars

OverlapNext == OverlapTest

OverlapSpec == OverlapInit /\ [][OverlapNext]_vars

\* ================================================================ claims
BlockCount(t) == IF t.exists THEN Len(t.blocks) ELSE 0

ExternalBlocks(blocks) == {i \in 1..Len(blocks) : blocks[i].ext # NoId}

\* C1 - idempotence of a sync pass: a second pass in a row over the same feed
\* leaves as many SyncedEvent records, as many blocks in every template and
\* the same exceptions with as many blocks as the pass before it did.
C1_Idempotence ==
  consec >= 2 =>
    /\ Len(synced_events) = Len(before.recs)
    /\ \A w \in Weekdays : BlockCount(templates[w]) = BlockCount(before.tpl[w])
    /\ {x.id : x \in exceptions} = {x.id : x \in before.exc}
    /\ \A x \in exceptions : \A y \in before.exc :
         x.id = y.id => Len(x.blocks) = Len(y.blocks)

\* the blocks, sorted by start, tile [opens_at, closes_at], and no two breaks
\* overlap
Partitions(blocks, opens_at, closes_at) ==
  LET b == SortByStart(blocks) IN
  /\ b # <<>>
  /\ parse_time(b[1].start) = opens_at
  /\ parse_time(b[Len(b)].end) = closes_at
  /\ \A i \in 1..(Len(b) - 1) : parse_time(b[i].end) = parse_time(b[i + 1].start)
  /\ \A i, j \in 1..Len(b) :
       i < j /\ IsBreak(b[i]) /\ IsBreak(b[j])
         => ~time_overlaps(b[i].start, b[i].end, b[j].start, b[j].end)

\* C2 - partition invariant: every template and every working-day exception
\* into which the engine inserted an external break has blocks that tile
\* [opens_at, closes_at] without gap or overlap, with no two breaks overlapping.
C2_Partition ==
  /\ \A w \in Weekdays :
       templates[w].exists /\ ExternalBlocks(templates[w].blocks) # {}
         => Partitions(templates[w].blocks, templates[w].opens_at, templates[w].closes_at)
  /\ \A x \in exceptions :
       x.is_working_day /\ ExternalBlocks(x.blocks) # {}
         => Partitions(x.blocks, x.opens_at, x.closes_at)

\* C3 - disconnect cleanup: when cleanup_synced_events has returned, no template
\* block and no exception (row or block) carries an external event id, and no
\* SyncedEvent record of the connection is left.
C3_DisconnectCleanup ==
  result.kind = "cleanup" =>
    /\ \A w \in Weekdays :
         templates[w].exists => ExternalBlocks(templates[w].blocks) = {}
    /\ \A x \in exceptions : x.ext = NoId /\ ExternalBlocks(x.blocks) = {}
    /\ \A i \in 1..Len(synced_events) : synced_events[i].conn # Conn

\* a disconnect after at least one pass whose cleanup undid two synced entities
C3_Witness ==
  /\ result.kind = "cleanup"
  /\ result.removed >= 2
  /\ passes >= 1

\* C4 - user-authored data survives disconnect: every exception and every
\* template break flagged existed_before_sync at connect time is still there,
\* unchanged, once cleanup_synced_events has run.
C4_UserDataSurvives ==
  result.kind = "cleanup" =>
    /\ \A x \in tracked.exc : x \in exceptions
    /\ \A w \in Weekdays :
         tracked.tpl[w].exists =>
           \A i \in 1..Len(tracked.tpl[w].blocks) :
             tracked.tpl[w].blocks[i].pre
               => /\ templates[w].exists
                  /\ tracked.tpl[w].blocks[i] \in SeqToSet(templates[w].blocks)

\* C5 - self-conflict suppression: no conflict of a pass names a break that
\* carries the id of the very event it is reported against.
C5_NoSelfConflict ==
  \A i \in 1..Len(result.conflicts) :
    result.conflicts[i].block_ext # result.conflicts[i].event

\* C6 - per-event error isolation: a pass returns its summary (nothing is
\* raised) whatever instance lacks its time of day, and the all-day events of
\* the feed are processed all the same.
C6_ErrorIsolation ==
  result.kind = "pass" =>
    /\ ~result.raised
    /\ \A i \in 1..Len(feed.all_day) :
         \A d \in feed.all_day[i].date..feed.all_day[i].end_date :
           HasException(exceptions, d)

\* C7 - mapping decision of a recurring group: no cadence maps nothing; a
\* positive multiple of 7 with a known weekday goes to the template and makes
\* no exception; every other cadence goes through exception mapping.
C7_MappingDecision ==
  result.kind = "pass" =>
    \A i \in 1..Len(feed.grouped) :
      LET g == feed.grouped[i]
          weekly == g.freq > 0 /\ g.freq % 7 = 0 /\ g.dow # NoDow
          ids == {g.instances[k].id : k \in 1..Len(g.instances)}
      IN i <= Len(result.routes) =>
           /\ g.freq = 0 => result.routes[i].route = "none"
           /\ weekly => /\ result.routes[i].route = "template"
                        /\ \A x \in exceptions : x.ext \notin ids
           /\ g.freq > 0 /\ ~weekly => result.routes[i].route = "exceptions"

\* the tasks that exist and have not been asked to stop
LiveTasks == {t \in TaskIds : tasks[t].state \notin {"none", "done"} /\ ~tasks[t].must_cancel}

\* C8 - single auto-sync task per user: at most one uncancelled auto_sync_task
\* exists for the user and it is the one registered in auto_sync_tasks, however
\* the handlers interleave at the await of stop_auto_sync.
C8_SingleTask ==
  /\ Cardinality(LiveTasks) <= 1
  /\ \A t \in LiveTasks : auto_sync_tasks = t

\* the coroutines that are inside a pass
InPass ==
  {CallCo(c) : c \in {d \in Calls : calls[d].pc \in PassSteps}}
    \cup {TaskCo(t) : t \in {u \in TaskIds : tasks[u].state \in PassSteps}}

\* C9 - no overlapping passes: at any time at most one coroutine (auto-sync
\* task or /sync handler) is inside a pass, so the steps of two passes never
\* interleave; a pass requested meanwhile runs after the first has finished.
C9_NoOverlap == Cardinality(InPass) <= 1

\* an auto-sync task is in the middle of its pass while a /sync request is
\* waiting to be handled
C9_Witness ==
  /\ \E t \in TaskIds : tasks[t].state = "process"
  /\ \E c \in Calls : calls[c].kind = "sync" /\ calls[c].pc = "ready"

\* C10 - clean cancellation: once stop_auto_sync has returned, the task it
\* cancelled has ended, it was cancelled before its first step or in one of
\* its sleeps and never inside a pass, and no auto-sync task has started a pass
\* between the return of disconnect's stop_auto_sync and the next registration.
C10_CleanCancel ==
  /\ \A c \in Calls :
       calls[c].stop_returned /\ calls[c].task # NoTask =>
         /\ tasks[calls[c].task].state = "done"
         /\ tasks[calls[c].task].cut \in {"new", "sleep300", "sleep60"}
  /\ ~late_pass

\* a disconnect has returned from stop_auto_sync after cancelling a task that
\* had been sleeping between passes, with a pass already made
C10_Witness ==
  /\ passes >= 1
  /\ \E c \in Calls :
       /\ calls[c].kind = "disconnect"
       /\ calls[c].stop_returned
       /\ calls[c].task # NoTask
       /\ tasks[calls[c].task].cut = "sleep300"

\* the records of the connection that point at events written to the provider
PushedRecords ==
  {i \in 1..Len(synced_events) : /\ synced_events[i].conn = Conn
                                 /\ synced_events[i].direction = "internal_to_external"}

\* C11 - Write-back refresh: after a pass whose provider calls all succeeded,
\* every event the writer holds in the provider's calendar is referenced by an
\* internal_to_external record of the connection, and no item of the schedule
\* has more than one event there.
C11_WriteBackRefresh ==
  (result.kind = "pass" /\ result.success /\ result.fault = "none")
    => /\ \A e \in provider_events :
            \E i \in PushedRecords : synced_events[i].ext = e.id
       /\ \A e1, e2 \in provider_events : e1.item = e2.item => e1 = e2


\* C12 - Provider auth failure: a pass in which the provider rejects the token,
\* at the refresh or while the events are fetched, returns an unsuccessful
\* result, leaves the store and the provider's calendar as they were and
\* leaves last_sync_status 'failed'.
C12_AuthFailure ==
  (result.kind = "pass" /\ result.fault \in {"refresh", "fetch"})
    => /\ ~result.success
       /\ Store = before
       /\ last_sync_status = "failed"

\* C13 - Persistence failure: a pass in which a commit fails leaves every
\* template, exception and record as it was before the pass, with
\* last_sync_status 'failed' and the message in last_sync_error.
C13_PersistenceFailure ==
  (result.kind = "pass" /\ result.fault = "commit")
    => /\ Store = before
       /\ last_sync_status = "failed"
       /\ last_sync_error = "message"

\* C14 - Best-effort disconnect: whatever the provider's failures while the
\* written-back events are deleted, after disconnect_calendar the connection
\* is inactive and has no record left.
C14_BestEffortDisconnect ==
  result.kind = "cleanup"
    => /\ ~connected
       /\ \A i \in 1..Len(synced_events) : synced_events[i].conn # Conn

\* a disconnect that undid mapped events while the provider kept events it was
\* asked to delete
C14_Witness ==
  /\ result.kind = "cleanup"
  /\ result.fault = "provider"
  /\ result.removed > 0
  /\ provider_events # {}
  /\ ~connected


\* the events of the feed, by id
FeedEvents ==
  SeqToSet(feed.special) \cup SeqToSet(feed.all_day) \cup SeqToSet(feed.recurrent)
    \cup UNION {SeqToSet(feed.grouped[g].instances) : g \in 1..Len(feed.grouped)}

\* the blocks of the template or exception a conflict was reported with
OwnerBlocks(owner) ==
  IF owner[1] = "template"
  THEN IF templates[owner[2]].exists THEN templates[owner[2]].blocks ELSE <<>>
  ELSE IF \E x \in exceptions : x.id = owner[2]
  THEN (CHOOSE x \in exceptions : x.id = owner[2]).blocks
  ELSE <<>>

\* C15 - Conflict resolution takes effect: once a conflict was resolved with
\* 'keep_external', the row it was reported with holds a break of the same
\* type with the external event's start and end, and a pass that follows does
\* not report a conflict for that event again.
C15_ResolutionTakesEffect ==
  resolved.type = "keep_external"
    => /\ \E e \in FeedEvents : \E j \in 1..Len(OwnerBlocks(resolved.conflict.owner)) :
            LET b == OwnerBlocks(resolved.conflict.owner)[j] IN
            /\ e.id = resolved.conflict.event
            /\ b.type = resolved.conflict.break_type
            /\ parse_time(b.start) = parse_time(e.start_time)
            /\ parse_time(b.end) = parse_time(e.end_time)
       /\ result.kind = "pass"
            => \A k \in 1..Len(result.conflicts) :
                 result.conflicts[k].event # resolved.conflict.event


\* the (external_event_id, local_event_id) pairs of the records
RecordPairs(recs) == {<<recs[i].ext, recs[i].local_id>> : i \in 1..Len(recs)}

\* C16 - SyncedEventRecord uniqueness: the user never has two records with the
\* same external_event_id and local_event_id.
C16_RecordUniqueness ==
  \A i, j \in 1..Len(synced_events) :
    (/\ synced_events[i].ext = synced_events[j].ext
     /\ synced_events[i].local_id = synced_events[j].local_id) => i = j

\* a pass has just mapped an event to the row it was already mapped to before
\* the pass, and the event was classified before it had any record
C16_Witness ==
  /\ result.kind = "pass"
  /\ \E k \in 1..Len(result.synced_ids) : \E i \in 1..Len(synced_events) :
       /\ synced_events[i].ext = result.synced_ids[k]
       /\ synced_events[i].direction = "external_to_internal"
       /\ synced_events[i].local_type # "pending"
       /\ <<synced_events[i].ext, synced_events[i].local_id>> \in RecordPairs(before.recs)
       /\ \E j \in 1..Len(synced_events) :
            /\ synced_events[j].ext = result.synced_ids[k]
            /\ synced_events[j].local_type = "pending"


\* C17 - At most one ScheduleException per date: no two exception rows of the
\* user have the same date.
C17_OneExceptionPerDate ==
  \A x, y \in exceptions : x.date = y.date => x = y

\* a pass over a feed with a timed one-off event and an all-day event on the
\* same date has left the exception the sync created for that date
C17_Witness ==
  /\ result.kind = "pass"
  /\ \E i \in 1..Len(feed.special) : \E j \in 1..Len(feed.all_day) :
       /\ feed.special[i].date = feed.all_day[j].date
       /\ \E x \in exceptions : /\ x.date = feed.special[i].date
                                /\ x.sync_source = Provider


\* the exceptions right after the i-th all-day event of the last pass
AfterAllDay(i) ==
  IF i < Len(result.all_day) THEN result.all_day[i + 1].exc ELSE exceptions

RowsOn(exc, d) == {x \in exc : x.date = d}

UnitDays(freq) ==
  CASE freq = "DAILY" -> 1 [] freq = "WEEKLY" -> 7 [] freq = "MONTHLY" -> 30
    [] freq = "YEARLY" -> 365

\* the value of the part with the key in the rule of the call (the rules of
\* the calls have each key once at most), none when the rule has no such part
PartsOf(key) ==
  {args.recurrence_rules[1].parts[i].value :
     i \in {j \in 1..Len(args.recurrence_rules[1].parts) :
              args.recurrence_rules[1].parts[j].key = key}}

Instant(time_str) ==
  2 * (SecondsPerMinute * time_str.minute + time_str.second)
    + (IF time_str.fraction THEN 1 ELSE 0)

\* C20 - merge_combine: for every conflicting pair of an external event and an
\* internal break, resolve_conflict with 'merge_combine' returns one break
\* whose start is the earlier of the two starts and whose end is the later of
\* the two ends, so that it contains both original ranges.
C20_MergeCombine ==
  (returned # NoReturn /\ args.fn = "resolve_conflict"
     /\ args.resolution_type = "merge_combine") =>
    LET e == args.conflict.external_event
        b == args.conflict.internal_break
    IN /\ ~returned.raised
       /\ returned.value.action = "merge"
       /\ Instant(returned.value.new_break.start)
            = MinTime(Instant(e.start_time), Instant(b.start))
       /\ Instant(returned.value.new_break.end)
            = MaxTime(Instant(e.end_time), Instant(b.end))

\* the whole minutes between two time strings of the same day
MinutesBetween(start, end) ==
  (Instant(end) - Instant(start)) \div (2 * SecondsPerMinute)

\* C21 - merge_sum: for every pair of same-day ranges of an external event and
\* an internal break, the returned break starts at the earlier of the two
\* starts and its end minus its start is the sum of the two durations in
\* minutes; its end is later than its start, also when the summed duration
\* reaches past 24:00.
C21_MergeSum ==
  (returned # NoReturn /\ args.fn = "resolve_conflict"
     /\ args.resolution_type = "merge_sum") =>
    LET e == args.conflict.external_event
        b == args.conflict.internal_break
        new_break == returned.value.new_break
    IN /\ ~returned.raised
       /\ Instant(new_break.start) = MinTime(Instant(e.start_time), Instant(b.start))
       /\ Instant(new_break.end) > Instant(new_break.start)
       /\ MinutesBetween(new_break.start, new_break.end)
            = MinutesBetween(e.start_time, e.end_time) + MinutesBetween(b.start, b.end)

\* C22 - overlap test: for all ranges A and B with start < end, both tests
\* give the same answer for (A, B) as for (B, A); the answer is no when one
\* range ends at or before the start of the other and yes when the two share
\* an open interval; the test on strings and the test on time values agree.
C22_OverlapTest ==
  (returned # NoReturn /\ args.fn = "overlap") =>
    LET a == args.a.range
        b == args.b.range
        apart == a[2] <= b[1] \/ b[2] <= a[1]
        shared == \E t \in Slots : /\ a[1] <= t /\ t < a[2]
                                   /\ b[1] <= t /\ t < b[2]
    IN /\ returned.strings = returned.strings_swapped
       /\ returned.values = returned.values_swapped
       /\ apart => ~returned.strings /\ ~returned.values
       /\ shared => returned.strings /\ returned.values
       /\ returned.strings = returned.values

\* two ranges that touch, written in different formats, have been tested
C22_Witness ==
  /\ returned # NoReturn
  /\ args.fn = "overlap"
  /\ args.a.range[2] = args.b.range[1]
  /\ args.a.end # args.b.start
  /\ ~returned.strings

\* C23 - cleanup recomputes consultation blocks: when cleanup_synced_events
\* strips an external break out of a template whose blocks tiled
\* [opens_at, closes_at], the remaining blocks tile [opens_at, closes_at] again.
C23_CleanupRecomputes ==
  [][(connected /\ ~connected' /\ result'.kind = "cleanup") =>
       \A w \in Weekdays :
         (/\ templates[w].exists
          /\ Partitions(templates[w].blocks, templates[w].opens_at,
                        templates[w].closes_at)
          /\ Len(templates'[w].blocks) < Len(templates[w].blocks))
           => Partitions(templates'[w].blocks, templates'[w].opens_at,
                         templates'[w].closes_at)]_vars

\* how many blocks of the templates and exceptions of a store carry the id,
\* how many exception rows, how many records
TaggedBlocks(blocks, id) == Cardinality({i \in 1..Len(blocks) : blocks[i].ext = id})

WrittenFor(tpl, exc, recs, id) ==
  [tplBlocks |-> [w \in Weekdays |->
                    IF tpl[w].exists THEN TaggedBlocks(tpl[w].blocks, id) ELSE 0],
   excBlocks |-> {<<x.id, TaggedBlocks(x.blocks, id)>> : x \in exc},
   rows |-> {x.id : x \in {y \in exc : y.ext = id}},
   recs |-> Cardinality({i \in 1..Len(recs) : recs[i].ext = id})]

\* C24 - a conflicting event is never written: an event for which a pass
\* reports a conflict is not among the pass's synced ids, the pass adds or
\* changes no template block, exception or record carrying its id, and the
\* break it competes with is still in its row as it was.
C24_ConflictNotWritten ==
  result.kind = "pass" =>
    \A k \in 1..Len(result.conflicts) :
      LET c == result.conflicts[k] IN
      /\ c.event \notin SeqToSet(result.synced_ids)
      /\ LET now == WrittenFor(templates, exceptions, synced_events, c.event)
             was == WrittenFor(before.tpl, before.exc, before.recs, c.event)
         IN /\ now.tplBlocks = was.tplBlocks
            /\ now.rows = was.rows
            /\ now.recs = was.recs
            /\ \A p \in now.excBlocks : p[2] > 0 => p \in was.excBlocks
      /\ \E j \in 1..Len(OwnerBlocks(c.owner)) :
           LET b == OwnerBlocks(c.owner)[j] IN
           /\ b.type = c.break_type
           /\ b.start = c.break_start
           /\ b.end = c.break_end
           /\ b.ext = c.block_ext

\* a pass that reported a conflict and synced another event
C24_Witness ==
  /\ result.kind = "pass"
  /\ ~result.raised
  /\ Len(result.conflicts) >= 1
  /\ Len(result.synced_ids) >= 1

\* C25 - filtered events never reach the store: an event with a placeholder
\* title, in whichever bucket of the feed it arrives (as an instance of a
\* grouped series too), has no template block, no exception and no record.
C25_FilteredEvents ==
  \A e \in FeedEvents :
    e.summary \in PlaceholderTitles =>
      LET w == WrittenFor(templates, exceptions, synced_events, e.id) IN
      /\ \A d \in Weekdays : w.tplBlocks[d] = 0
      /\ \A p \in w.excBlocks : p[2] = 0
      /\ w.rows = {}
      /\ w.recs = 0

\* blocks as (start, end, type) with the times the strings denote
AsRanges(blocks) ==
  [i \in 1..Len(blocks) |->
     <<parse_time(blocks[i].start), parse_time(blocks[i].end), blocks[i].type>>]

\* C26 - break insertion on an empty day: for a day without breaks and an
\* event with opens_at < start < end < closes_at the result is the consultation
\* [opens_at, start], the break [start, end] and the consultation
\* [end, closes_at], in this order and nothing else; when start = opens_at or
\* end = closes_at the empty consultation block is left out.
C26_InsertOnEmptyDay ==
  (returned # NoReturn /\ args.fn = "insert_break_into_blocks") =>
    LET o == args.opens_at
        c == args.closes_at
        st == parse_time(args.event.start_time)
        en == parse_time(args.event.end_time)
    IN AsRanges(returned.blocks)
         = (IF o < st THEN <<<<o, st, "consultation">>>> ELSE <<>>)
             \o <<<<st, en, "break">>>>
             \o (IF en < c THEN <<<<en, c, "consultation">>>> ELSE <<>>)

\* the instant lies in one of the ranges
Covers(breaks, t) ==
  \E i \in 1..Len(breaks) : Instant(breaks[i].start) <= t /\ t < Instant(breaks[i].end)

EndPoints(breaks) ==
  {Instant(breaks[i].start) : i \in 1..Len(breaks)}
    \cup {Instant(breaks[i].end) : i \in 1..Len(breaks)}

\* C27 - merge_overlapping_breaks: the result is sorted by start, every break
\* of it starts after the end of the one before, the ranges of the result
\* cover what the ranges of the input cover, and merging the result again
\* changes nothing.
C27_MergeOverlapping ==
  (returned # NoReturn /\ args.fn = "merge_overlapping_breaks") =>
    LET out == returned.value IN
    /\ \A i \in 1..(Len(out) - 1) :
         /\ Instant(out[i].start) <= Instant(out[i + 1].start)
         /\ Instant(out[i + 1].start) > Instant(out[i].end)
    /\ \A t \in EndPoints(args.breaks) \cup EndPoints(out) :
         Covers(args.breaks, t) <=> Covers(out, t)
    /\ merge_overlapping_breaks(out) = out

\* C30 - No orphaned pushed event: in the write-back of a pass, the record of
\* a written-back event is removed only when the event was deleted at the
\* provider; an event that is still in the provider's calendar after the pass
\* and had an internal_to_external record before it, has one after it.
C30_NoOrphanedEvent ==
  [][result'.kind = "pass" =>
       \A e \in provider_events' :
         e.id \in PushedIds(synced_events) => e.id \in PushedIds(synced_events')]_vars

\* C28 - merge_calendars is sticky: once sync_settings.merge_calendars of the
\* connection is true it is true in every later state, whatever sync requests
\* (also with merge_calendars false), settings updates, sync-now calls,
\* disconnects and reconnects follow.
C28_StickyMerge ==
  [][Get(sync_settings, "merge_calendars", FALSE)
       => Get(sync_settings', "merge_calendars", FALSE)]_vars

\* a sync request with merge_calendars false, or a settings update that sets
\* it false or leaves it out, has been served and the setting is true
C28_Witness ==
  /\ Get(sync_settings, "merge_calendars", FALSE)
  /\ \/ /\ result.kind = "pass"
        /\ args.fn = "sync_calendars"
        /\ ~args.request.merge_calendars
     \/ /\ result.kind = "settings"
        /\ args.fn = "update_sync_settings"
        /\ ~Get(args.settings_update, "merge_calendars", FALSE)

\* C29 - No feedback loop through write-back: a pass does not treat an event
\* the write-back made of a break of the user's own as an external event: the
\* pass reports no conflict between the event and the break it was made
\* from, and leaves no external_to_internal record of the event.
C29_NoFeedback ==
  [][result'.kind = "pass" =>
       \A e \in provider_events :
         ~e.body.all_day =>
           LET id == ParsedEvent(e).id IN
           /\ \A i \in 1..Len(result'.conflicts) :
                ~(/\ result'.conflicts[i].event = id
                  /\ result'.conflicts[i].owner = e.item[1]
                  /\ result'.conflicts[i].block_ext = NoId)
           /\ \A i \in 1..Len(synced_events') :
                ~(/\ synced_events'[i].ext = id
                  /\ synced_events'[i].direction = "external_to_internal")]_vars

====
